---- MODULE Spec2Model ----
(***************************************************************************)
(* FreeCash: the ledger (Conta rows) with the credit-card invoice and      *)
(* installment engine of core/views/cartoes.py, core/views/contas.py,      *)
(* core/views/receitas.py and core/services/fatura_service.py.             *)
(*                                                                         *)
(* A Decimal quantized to 0.01 is represented by its coefficient: the      *)
(* integer number of hundredths (cents).  A date is a record               *)
(* [ano, mes, dia]; None is SemData.  A missing foreign key or a null      *)
(* integer column is 0.  Every request handler is one action.              *)
(***************************************************************************)
EXTENDS Integers, Sequences, FiniteSets, TLC

VARIABLES
    contas,      \* the Conta table of the user: id -> row
    proxId,      \* the next value of the table's auto-increment id
    totalGrupo,  \* history: grupo_parcelamento -> total of the purchase that made it
    pedido,      \* function-level specifications: the call's inputs and its outcome
    tabelas      \* the user's rows of the other models: name -> [linhas, proxId]

vars == <<contas, proxId, totalGrupo, pedido, tabelas>>

------------------------------------------------------------------------------
(* Bounds of the model *)

\* rows the ledger may hold in the request-level specifications
MaxContas == 4
\* largest purchase total, in cents, of the installment-split specification
MaxTotal == 50
\* last year of the purchase dates of the due-date specification
MaxAno == 2024
\* rows in the table of the import runs
MaxImportadas == 2

------------------------------------------------------------------------------
(* Dates *)

SemData == [ano |-> 0, mes |-> 0, dia |-> 0]

Data(a, m, d) == [ano |-> a, mes |-> m, dia |-> d]

\* calendar.monthrange(y, m)[1]
UltimoDiaMes(y, m) ==
    IF m = 2
    THEN (IF (y % 4 = 0 /\ y % 100 # 0) \/ y % 400 = 0 THEN 29 ELSE 28)
    ELSE IF m \in {4, 6, 9, 11} THEN 30 ELSE 31

Min(a, b) == IF a <= b THEN a ELSE b

\* datetime.MAXYEAR: date(y, m, d) raises ValueError for a later year
MAXYEAR == 9999

add_months(d, months) ==
    LET y == d.ano + ((d.mes - 1 + months) \div 12)
        m == ((d.mes - 1 + months) % 12) + 1
        last_day == UltimoDiaMes(y, m)
    IN  Data(y, m, Min(d.dia, last_day))

\* the closing month compared with <, not <=
calcular_vencimento_fatura_lt(data_compra, dia_fechamento, dia_vencimento) ==
    LET ano == data_compra.ano
        mes == data_compra.mes
        dia == data_compra.dia
        mes_fechamento == IF dia < dia_fechamento THEN mes
                          ELSE IF mes = 12 THEN 1 ELSE mes + 1
        ano_fechamento == IF dia < dia_fechamento THEN ano
                          ELSE IF mes = 12 THEN ano + 1 ELSE ano
        mes_vencimento == IF dia_vencimento > dia_fechamento THEN mes_fechamento
                          ELSE IF mes_fechamento = 12 THEN 1 ELSE mes_fechamento + 1
        ano_vencimento == IF dia_vencimento > dia_fechamento THEN ano_fechamento
                          ELSE IF mes_fechamento = 12 THEN ano_fechamento + 1
                               ELSE ano_fechamento
    IN  Data(ano_vencimento, mes_vencimento,
             Min(dia_vencimento, UltimoDiaMes(ano_vencimento, mes_vencimento)))

calcular_vencimento_fatura(data_compra, dia_fechamento, dia_vencimento) ==
    LET ano == data_compra.ano
        mes == data_compra.mes
        dia == data_compra.dia
        \* Passo 1: mes de fechamento
        mes_fechamento == IF dia <= dia_fechamento THEN mes
                          ELSE IF mes = 12 THEN 1 ELSE mes + 1
        ano_fechamento == IF dia <= dia_fechamento THEN ano
                          ELSE IF mes = 12 THEN ano + 1 ELSE ano
        \* Passo 2: data de vencimento
        mes_vencimento == IF dia_vencimento > dia_fechamento THEN mes_fechamento
                          ELSE IF mes_fechamento = 12 THEN 1 ELSE mes_fechamento + 1
        ano_vencimento == IF dia_vencimento > dia_fechamento THEN ano_fechamento
                          ELSE IF mes_fechamento = 12 THEN ano_fechamento + 1
                               ELSE ano_fechamento
        ultimo_dia_mes == UltimoDiaMes(ano_vencimento, mes_vencimento)
        dia_venc == Min(dia_vencimento, ultimo_dia_mes)
    IN  Data(ano_vencimento, mes_vencimento, dia_venc)

------------------------------------------------------------------------------
(* The Conta table *)

\* timezone.localdate(): the day the requests are served
Hoje == Data(2024, 3, 10)

\* the user's cards, each with (dia_fechamento, dia_vencimento)
Cartoes == {1, 2}

CartaoCfg(c) ==
    IF c = 1 THEN [dia_fechamento |-> 10, dia_vencimento |-> 15]
             ELSE [dia_fechamento |-> 20, dia_vencimento |-> 5]

\* a row of CartaoCredito; the uuid of a row created locally is its id
CartaoCredito(c) ==
    [uuid |-> c, dia_fechamento |-> CartaoCfg(c).dia_fechamento,
     dia_vencimento |-> CartaoCfg(c).dia_vencimento]

\* the other tables of the user before the first request: the two cards, one
\* category, no subscription
\* a row of LogImportacao: the kind of import, the success flag, the message
LogImportacao(tipo, sucesso, mensagem) ==
    [tipo |-> tipo, sucesso |-> sucesso, mensagem |-> mensagem]

TabelasIniciais ==
    [Categoria     |-> [linhas |-> (1 :> [uuid |-> 1, nome |-> "casa"]), proxId |-> 2],
     CartaoCredito |-> [linhas |-> [c \in Cartoes |-> CartaoCredito(c)], proxId |-> 3],
     Assinatura    |-> [linhas |-> << >>, proxId |-> 1],
     LogImportacao |-> [linhas |-> << >>, proxId |-> 1],
     ExtratoImportado |-> [linhas |-> << >>, proxId |-> 1],
     LinhaExtrato  |-> [linhas |-> << >>, proxId |-> 1]]

\* a row of Conta with the model defaults of the fields a handler leaves out
Conta(tipo, descricao, valor, data_prevista) ==
    [tipo |-> tipo, descricao |-> descricao, valor |-> valor,
     data_prevista |-> data_prevista,
     transacao_realizada |-> FALSE, data_realizacao |-> SemData,
     cartao |-> 0, eh_fatura_cartao |-> FALSE, fatura |-> 0,
     eh_parcelada |-> FALSE, parcela_numero |-> 0, parcela_total |-> 0,
     grupo_parcelamento |-> 0, uuid |-> 0,
     categoria |-> 0, assinatura |-> 0]

Ids(cs) == DOMAIN cs

\* Conta.objects.create: the row gets the next id and, when the caller gives
\* none, a fresh uuid (the id stands for it)
Inserir(st, linha) ==
    [contas |-> st.contas @@
                  (st.proxId :> [linha EXCEPT !.uuid = IF @ = 0 THEN st.proxId ELSE @]),
     proxId |-> st.proxId + 1]

\* QuerySet.delete(); on_delete=SET_NULL clears the fatura of the rows that
\* pointed to a deleted row
Apagar(cs, apagadas) ==
    [i \in Ids(cs) \ apagadas |->
        IF cs[i].fatura \in apagadas THEN [cs[i] EXCEPT !.fatura = 0] ELSE cs[i]]

RECURSIVE SomaValores(_, _)
SomaValores(cs, S) ==
    IF S = {} THEN 0
    ELSE LET i == CHOOSE x \in S : TRUE
         IN  cs[i].valor + SomaValores(cs, S \ {i})

\* Conta.objects.filter(fatura=fatura, eh_fatura_cartao=False)
DespesasDaFatura(cs, f) ==
    { i \in Ids(cs) : cs[i].fatura = f /\ ~cs[i].eh_fatura_cartao }

------------------------------------------------------------------------------
(* core/services/fatura_service.py *)

\* the rows the lookup of obter_ou_criar_fatura matches
FaturasDoMes(cs, cartao, data_vencimento) ==
    { i \in Ids(cs) : /\ cs[i].cartao = cartao
                      /\ cs[i].eh_fatura_cartao
                      /\ cs[i].data_prevista.ano = data_vencimento.ano
                      /\ cs[i].data_prevista.mes = data_vencimento.mes }

DataNum(d) == (d.ano * 10000) + (d.mes * 100) + d.dia

\* .first() under Meta.ordering = ["-data_prevista", "-id"]
Primeira(cs, S) ==
    CHOOSE i \in S : \A j \in S \ {i} :
        \/ DataNum(cs[j].data_prevista) < DataNum(cs[i].data_prevista)
        \/ (cs[j].data_prevista = cs[i].data_prevista /\ j < i)

\* a lookup that never finds the invoice of the month
obter_ou_criar_fatura_sempre_cria(st, cartao, data_vencimento) ==
    [st |-> Inserir(st, [Conta("D", "Fatura", 0, data_vencimento)
                           EXCEPT !.cartao = cartao, !.eh_fatura_cartao = TRUE]),
     id |-> st.proxId]

\* returns the state after the call and the id of the invoice
obter_ou_criar_fatura(st, cartao, data_vencimento) ==
    LET achadas == FaturasDoMes(st.contas, cartao, data_vencimento)
    IN  IF achadas # {}
        THEN [st |-> st, id |-> Primeira(st.contas, achadas)]
        ELSE [st |-> Inserir(st, [Conta("D", "Fatura", 0, data_vencimento)
                                    EXCEPT !.cartao = cartao,
                                           !.eh_fatura_cartao = TRUE]),
              id |-> st.proxId]

\* a recomputation that does not look at transacao_realizada
atualizar_valor_fatura_sem_guarda(cs, f) ==
    [cs EXCEPT ![f].valor = SomaValores(cs, DespesasDaFatura(cs, f))]

atualizar_valor_fatura(cs, f) ==
    IF cs[f].transacao_realizada
    THEN cs
    ELSE [cs EXCEPT ![f].valor = SomaValores(cs, DespesasDaFatura(cs, f))]

\* atualizar_valor_fatura on each invoice of a set that is still in the table:
\* each call changes only the amount of its own invoice, so the order is free
AtualizarFaturas(cs, faturas) ==
    [i \in Ids(cs) |->
        IF i \in faturas THEN atualizar_valor_fatura(cs, i)[i] ELSE cs[i]]

\* a payment that marks the invoice and leaves its expenses alone
pagar_fatura_so_fatura(cs, f, data_pagamento) ==
    [cs EXCEPT ![f].transacao_realizada = TRUE, ![f].data_realizacao = data_pagamento]

pagar_fatura(cs, f, data_pagamento) ==
    [i \in Ids(cs) |->
        IF i = f \/ i \in DespesasDaFatura(cs, f)
        THEN [cs[i] EXCEPT !.transacao_realizada = TRUE,
                           !.data_realizacao = data_pagamento]
        ELSE cs[i]]

\* an undo that keeps the payment date of the expenses
desfazer_pagamento_fatura_mantem_data(cs, f) ==
    [i \in Ids(cs) |->
        IF i = f
        THEN [cs[i] EXCEPT !.transacao_realizada = FALSE, !.data_realizacao = SemData]
        ELSE IF i \in DespesasDaFatura(cs, f)
             THEN [cs[i] EXCEPT !.transacao_realizada = FALSE]
             ELSE cs[i]]

desfazer_pagamento_fatura(cs, f) ==
    [i \in Ids(cs) |->
        IF i = f \/ i \in DespesasDaFatura(cs, f)
        THEN [cs[i] EXCEPT !.transacao_realizada = FALSE,
                           !.data_realizacao = SemData]
        ELSE cs[i]]

despesa_pode_ser_editada(cs, d) ==
    ~(cs[d].fatura # 0 /\ cs[cs[d].fatura].transacao_realizada)

------------------------------------------------------------------------------
(* The installment split *)

\* the accepted numbers of installments: 2..24 on a card, 2..12 elsewhere
MinParcelas == 2
MaxParcelasCartao == 24
MaxParcelasConta == 12

\* a split that drops the remainder
CentavosDaParcela_sem_resto(total_cents, n, i) == total_cents \div n

\* a split that gives the extra cent to the last installments
CentavosDaParcela_ultimas(total_cents, n, i) ==
    (total_cents \div n) + (IF i > n - (total_cents % n) THEN 1 ELSE 0)

\* cents = base + (1 if i <= resto else 0)
CentavosDaParcela(total_cents, n, i) ==
    LET base == total_cents \div n
        resto == total_cents % n
    IN  base + (IF i <= resto THEN 1 ELSE 0)

\* the loop of CartaoDespesaCreateView.post over the installments: v holds the
\* locals at the head of the loop (the table st, the invoices touched, the
\* group id, the installment i to create, whether add_months raised) and the
\* purchase
RECURSIVE ParcelasCartao(_)
ParcelasCartao(v) ==
    IF v.i > v.n THEN v
    ELSE IF v.i > 1 /\ add_months(v.data_vencimento, v.i - 1).ano > MAXYEAR
    THEN [v EXCEPT !.falhou = TRUE]
    ELSE LET venc == IF v.i = 1 THEN v.data_vencimento
                     ELSE add_months(v.data_vencimento, v.i - 1)
             r == obter_ou_criar_fatura(v.st, v.cartao, venc)
             gid == IF v.i = 1 THEN r.st.proxId ELSE v.gid
             linha == [Conta("D", v.descricao,
                             CentavosDaParcela(v.total_cents, v.n, v.i), venc)
                         EXCEPT !.cartao = v.cartao, !.eh_parcelada = TRUE,
                                !.parcela_numero = v.i, !.parcela_total = v.n,
                                !.grupo_parcelamento = gid, !.fatura = r.id]
         IN  ParcelasCartao([v EXCEPT !.st = Inserir(r.st, linha),
                                      !.afetadas = @ \cup {r.id},
                                      !.gid = gid, !.i = @ + 1])

\* the installments of CadastrarContaPagarView.post (unrealized expenses) and
\* of ReceitaCreateView.post (incomes realized on their due date)
RECURSIVE ParcelasSimples(_)
ParcelasSimples(v) ==
    IF v.i > v.n THEN v
    ELSE LET venc == IF v.i = 1 THEN v.data ELSE add_months(v.data, v.i - 1)
             gid == IF v.i = 1 THEN v.st.proxId ELSE v.gid
             linha == [Conta(v.tipo, v.descricao,
                             CentavosDaParcela(v.total_cents, v.n, v.i), venc)
                         EXCEPT !.transacao_realizada = (v.tipo = "R"),
                                !.data_realizacao =
                                    IF v.tipo = "R" THEN venc ELSE SemData,
                                !.eh_parcelada = TRUE,
                                !.parcela_numero = v.i, !.parcela_total = v.n,
                                !.grupo_parcelamento = gid]
         IN  ParcelasSimples([v EXCEPT !.st = Inserir(v.st, linha),
                                       !.gid = gid, !.i = @ + 1])

------------------------------------------------------------------------------
(* core/views/cartoes.py *)

Estado == [contas |-> contas, proxId |-> proxId]

\* a request answered with an error message and a redirect
Recusar == UNCHANGED <<contas, proxId, totalGrupo>>

\* the writes made before the exception stay
ExcecaoNoBlocoAtomico_sem_rollback(st) ==
    /\ contas' = st.contas
    /\ proxId' = st.proxId
    /\ UNCHANGED totalGrupo

\* with transaction.atomic(): an exception raised inside the block, where the
\* table had become st, undoes the writes of the block
ExcecaoNoBlocoAtomico(st) == Recusar

CartaoDespesaCreate(c, descricao, valor_total, data_compra, parcelado, n) ==
    \* get_object_or_404(CartaoCredito, id=cartao_id, usuario=request.user)
    /\ c \in DOMAIN tabelas.CartaoCredito.linhas
    /\ LET cfg == tabelas.CartaoCredito.linhas[c]
           data_vencimento == calcular_vencimento_fatura(
                                  data_compra, cfg.dia_fechamento, cfg.dia_vencimento)
       IN  IF valor_total <= 0
           THEN Recusar
           \* date() raises in calcular_vencimento_fatura, before any write
           ELSE IF data_vencimento.ano > MAXYEAR
           THEN Recusar
           ELSE IF parcelado
           THEN IF n < MinParcelas \/ n > MaxParcelasCartao
                THEN Recusar
                ELSE LET r == ParcelasCartao(
                                  [st |-> Estado, afetadas |-> {}, gid |-> 0, i |-> 1,
                                   cartao |-> c, descricao |-> descricao,
                                   total_cents |-> valor_total, n |-> n,
                                   data_vencimento |-> data_vencimento,
                                   falhou |-> FALSE])
                     IN  IF r.falhou
                         THEN ExcecaoNoBlocoAtomico(r.st)
                         ELSE /\ contas' = AtualizarFaturas(r.st.contas, r.afetadas)
                              /\ proxId' = r.st.proxId
                              /\ totalGrupo' = totalGrupo @@ (r.gid :> valor_total)
           ELSE LET r == obter_ou_criar_fatura(Estado, c, data_vencimento)
                    linha == [Conta("D", descricao, valor_total, data_vencimento)
                                EXCEPT !.cartao = c, !.fatura = r.id]
                    st == Inserir(r.st, linha)
                IN  /\ contas' = atualizar_valor_fatura(st.contas, r.id)
                    /\ proxId' = st.proxId
                    /\ UNCHANGED totalGrupo

\* get_object_or_404(Conta, id=despesa_id, cartao=cartao, eh_fatura_cartao=False)
EhDespesaDeCartao(d) ==
    d \in Ids(contas) /\ contas[d].cartao # 0 /\ ~contas[d].eh_fatura_cartao

CartaoDespesaUpdate(d, descricao, valor, data_prevista) ==
    /\ EhDespesaDeCartao(d)
    /\ IF ~despesa_pode_ser_editada(contas, d) \/ valor <= 0
       THEN Recusar
       ELSE LET fatura_antiga == contas[d].fatura
                cs == [contas EXCEPT ![d].descricao = descricao,
                                     ![d].valor = valor,
                                     ![d].data_prevista = data_prevista]
            IN  /\ contas' = IF fatura_antiga # 0
                             THEN atualizar_valor_fatura(cs, fatura_antiga)
                             ELSE cs
                /\ UNCHANGED <<proxId, totalGrupo>>

CartaoDespesaDelete(d, apagar_grupo) ==
    /\ EhDespesaDeCartao(d)
    /\ IF ~despesa_pode_ser_editada(contas, d)
       THEN Recusar
       ELSE LET em_grupo == /\ apagar_grupo
                            /\ contas[d].eh_parcelada
                            /\ contas[d].grupo_parcelamento # 0
                parcelas ==
                    IF em_grupo
                    THEN { i \in Ids(contas) :
                             /\ contas[i].cartao = contas[d].cartao
                             /\ contas[i].eh_parcelada
                             /\ contas[i].grupo_parcelamento =
                                    contas[d].grupo_parcelamento }
                    ELSE {d}
                faturas_para_atualizar ==
                    { contas[i].fatura : i \in parcelas } \ {0}
            IN  /\ contas' = AtualizarFaturas(Apagar(contas, parcelas),
                                              faturas_para_atualizar)
                /\ UNCHANGED <<proxId, totalGrupo>>

\* get_object_or_404(Conta, id=fatura_id, cartao=cartao, eh_fatura_cartao=True)
EhFaturaDeCartao(f) ==
    f \in Ids(contas) /\ contas[f].cartao # 0 /\ contas[f].eh_fatura_cartao

FaturaPagar(f, acao) ==
    /\ EhFaturaDeCartao(f)
    /\ contas' = IF acao = "desfazer"
                 THEN desfazer_pagamento_fatura(contas, f)
                 ELSE pagar_fatura(contas, f, Hoje)
    /\ UNCHANGED <<proxId, totalGrupo>>

------------------------------------------------------------------------------
(* core/views/contas.py and core/views/receitas.py *)

CadastrarContaPagar(descricao, valor_total, data_prevista, parcelado, n) ==
    IF valor_total <= 0
    THEN Recusar
    ELSE IF parcelado
    THEN IF n < MinParcelas \/ n > MaxParcelasConta
         THEN Recusar
         ELSE LET r == ParcelasSimples(
                           [st |-> Estado, gid |-> 0, i |-> 1,
                            tipo |-> "D", descricao |-> descricao,
                            total_cents |-> valor_total, n |-> n,
                            data |-> data_prevista])
              IN  /\ contas' = r.st.contas
                  /\ proxId' = r.st.proxId
                  /\ totalGrupo' = totalGrupo @@ (r.gid :> valor_total)
    ELSE LET st == Inserir(Estado, Conta("D", descricao, valor_total, data_prevista))
         IN  /\ contas' = st.contas
             /\ proxId' = st.proxId
             /\ UNCHANGED totalGrupo

\* the income form does not check the sign of valor
ReceitaCreate(descricao, valor, data_date, parcelado, n) ==
    IF parcelado
    THEN IF n < MinParcelas \/ n > MaxParcelasConta
         THEN Recusar
         ELSE LET r == ParcelasSimples(
                           [st |-> Estado, gid |-> 0, i |-> 1,
                            tipo |-> "R", descricao |-> descricao,
                            total_cents |-> valor, n |-> n,
                            data |-> data_date])
              IN  /\ contas' = r.st.contas
                  /\ proxId' = r.st.proxId
                  /\ totalGrupo' = totalGrupo @@ (r.gid :> valor)
    ELSE LET st == Inserir(Estado,
                       [Conta("R", descricao, valor, data_date)
                          EXCEPT !.transacao_realizada = TRUE,
                                 !.data_realizacao = data_date])
         IN  /\ contas' = st.contas
             /\ proxId' = st.proxId
             /\ UNCHANGED totalGrupo

\* get_object_or_404(Conta, id=conta_id, usuario=usuario): any row of the user
ContaUpdate(id, descricao, valor, data_prevista, aplicar_grupo) ==
    /\ id \in Ids(contas)
    /\ IF valor <= 0
       THEN Recusar
       ELSE LET em_grupo == /\ aplicar_grupo
                            /\ contas[id].eh_parcelada
                            /\ contas[id].grupo_parcelamento # 0
                gid == contas[id].grupo_parcelamento
            IN  /\ contas' =
                     [i \in Ids(contas) |->
                        IF i = id
                        THEN [contas[i] EXCEPT !.descricao = descricao,
                                               !.valor = valor,
                                               !.data_prevista = data_prevista]
                        ELSE IF em_grupo /\ contas[i].grupo_parcelamento = gid
                             THEN [contas[i] EXCEPT !.descricao = descricao]
                             ELSE contas[i]]
                /\ UNCHANGED <<proxId, totalGrupo>>

ApagarConta(id, apagar_grupo) ==
    /\ id \in Ids(contas)
    /\ LET em_grupo == /\ apagar_grupo
                       /\ contas[id].eh_parcelada
                       /\ contas[id].grupo_parcelamento # 0
           apagadas ==
               IF em_grupo
               THEN { i \in Ids(contas) :
                        /\ contas[i].eh_parcelada
                        /\ contas[i].grupo_parcelamento =
                               contas[id].grupo_parcelamento }
               ELSE {id}
       IN  /\ contas' = Apagar(contas, apagadas)
           /\ UNCHANGED <<proxId, totalGrupo>>

\* get_object_or_404(Conta, id=conta_id, usuario=usuario, tipo=TIPO_DESPESA)
MarcarContaPaga(id) ==
    /\ id \in Ids(contas)
    /\ contas[id].tipo = "D"
    /\ IF contas[id].transacao_realizada
       THEN Recusar
       ELSE /\ contas' = [contas EXCEPT ![id].transacao_realizada = TRUE,
                                        ![id].data_realizacao = Hoje]
            /\ UNCHANGED <<proxId, totalGrupo>>

------------------------------------------------------------------------------
(* core/services/import_report_service.py, core/views/importar.py and       *)
(* core/services/importar_unificado.py                                      *)

\* str.upper() on the descriptions the model uses
Upper(s) ==
    CASE s = "compra" -> "COMPRA"
      [] s = "Compra" -> "COMPRA"
      [] s = "Fatura" -> "FATURA"
      [] OTHER -> s

\* the last row of S in the order of Conta.Meta.ordering (-data_prevista, -id):
\* the one a dict built over the queryset keeps for a repeated key
Ultima(cs, S) ==
    CHOOSE i \in S : \A j \in S :
        \/ DataNum(cs[j].data_prevista) > DataNum(cs[i].data_prevista)
        \/ (cs[j].data_prevista = cs[i].data_prevista /\ j >= i)

\* one record of the report: marks it as a duplicate of the row with the same
\* due date, upper-cased description and amount
validar_registro(cs, registro) ==
    LET iguais == { i \in Ids(cs) :
                      /\ cs[i].data_prevista = registro.data
                      /\ Upper(cs[i].descricao) = Upper(registro.descricao)
                      /\ cs[i].valor = registro.valor }
    IN  [data |-> registro.data, tipo |-> registro.tipo,
         descricao |-> registro.descricao, valor |-> registro.valor,
         realizada |-> registro.realizada,
         existe_duplicado |-> iguais # {},
         conta_existente_id |-> IF iguais = {} THEN 0 ELSE Ultima(cs, iguais)]

validar_dados_relatorio(cs, dados) ==
    [k \in 1..Len(dados) |-> validar_registro(cs, dados[k])]

\* the records from the k-th on; Conta.objects.get on a row deleted since the
\* validation raises, and the function returns with what it did so far
RECURSIVE importar_dados_relatorio(_, _, _, _)
importar_dados_relatorio(st, dados, modo, k) ==
    IF k > Len(dados) THEN st
    ELSE LET registro == dados[k]
             id == registro.conta_existente_id
         IN  IF registro.existe_duplicado
             THEN IF modo = "sobrescrever"
                  THEN IF id \notin Ids(st.contas) THEN st
                       ELSE LET conta == st.contas[id]
                                nova == [conta EXCEPT
                                           !.tipo = registro.tipo,
                                           !.descricao = registro.descricao,
                                           !.valor = registro.valor,
                                           !.transacao_realizada = registro.realizada,
                                           !.data_realizacao =
                                               IF registro.realizada /\ @ = SemData
                                               THEN registro.data ELSE @]
                            IN  importar_dados_relatorio(
                                    [st EXCEPT !.contas[id] = nova], dados, modo, k + 1)
                  ELSE importar_dados_relatorio(st, dados, modo, k + 1)
             ELSE LET linha == [Conta(registro.tipo, registro.descricao,
                                      registro.valor, registro.data)
                                  EXCEPT !.transacao_realizada = registro.realizada,
                                         !.data_realizacao =
                                             IF registro.realizada
                                             THEN registro.data ELSE SemData]
                  IN  importar_dados_relatorio(Inserir(st, linha), dados, modo, k + 1)

\* ImportarRelatorioView.post: the validated records go to the session
ImportarRelatorio(dados) ==
    /\ pedido' = [op |-> "relatorio", dados |-> validar_dados_relatorio(contas, dados)]
    /\ UNCHANGED tabelas
    /\ UNCHANGED <<contas, proxId, totalGrupo>>

\* ImportarRelatorioPreviewView.post, with the right password
ImportarRelatorioPreview(modo) ==
    IF pedido.op # "relatorio"
    THEN UNCHANGED <<contas, proxId, totalGrupo, pedido, tabelas>>
    ELSE LET st == importar_dados_relatorio(Estado, pedido.dados, modo, 1)
         IN  /\ contas' = st.contas
             /\ proxId' = st.proxId
             /\ pedido' = [op |-> "nenhum"]
             /\ UNCHANGED tabelas
             /\ UNCHANGED totalGrupo

\* a backup whose sheet "contas" has the one row: update_or_create by uuid
importar_backup_conta(st, row) ==
    LET data_realizacao == IF row.transacao_realizada
                           THEN row.data_realizacao ELSE SemData
        achadas == { i \in Ids(st.contas) : st.contas[i].uuid = row.uuid }
    IN  IF row.uuid = 0 \/ row.data_prevista = SemData THEN st
        ELSE IF achadas # {}
        THEN LET id == CHOOSE i \in achadas : TRUE
             IN  [st EXCEPT !.contas[id] =
                     [@ EXCEPT !.tipo = row.tipo, !.descricao = row.descricao,
                               !.valor = row.valor,
                               !.data_prevista = row.data_prevista,
                               !.transacao_realizada = row.transacao_realizada,
                               !.data_realizacao = data_realizacao]]
        \* no row has the uuid: the create of update_or_create gets is_legacy
        \* and origem_* among its defaults, which are no fields of Conta, and
        \* raises FieldError; the import is rolled back
        ELSE st

importar_backup_freecash_upsert(row) ==
    LET st == importar_backup_conta(Estado, row)
    IN  /\ contas' = st.contas
        /\ proxId' = st.proxId
        /\ UNCHANGED totalGrupo

------------------------------------------------------------------------------
(* The requests of the card screens, with marking a row paid: SpecCartao;  *)
(* with the edit and delete of the accounts screens as well: Spec          *)

\* purchase amounts and edited amounts, in cents
Valores == {5}
ValoresEdicao == {7}
Descricoes == {"compra"}
\* card purchases: card 1 in two invoice months, card 2 in the second of them
Compras == { [cartao |-> 1, data |-> Data(2024, 1, 5)],
             [cartao |-> 1, data |-> Data(2024, 1, 25)],
             [cartao |-> 2, data |-> Data(2024, 1, 5)] }
DatasEdicao == {Data(2024, 2, 15)}
\* the installment counts tried while the ledger has room for the rows
ParcelasTentadas == {2, 3}

\* ids are never reused: the model stops inserting after MaxContas of them
Cabe == Cardinality(Ids(contas')) <= MaxContas /\ proxId' <= MaxContas + 1

Init ==
    /\ contas = << >>
    /\ proxId = 1
    /\ totalGrupo = << >>
    /\ pedido = [op |-> "nenhum"]
    /\ tabelas = TabelasIniciais

ComprarNoCartao ==
    /\ \E cp \in Compras, v \in Valores, ds \in Descricoes :
          CartaoDespesaCreate(cp.cartao, ds, v, cp.data, FALSE, 1) /\ Cabe
    /\ UNCHANGED <<pedido, tabelas>>

ParcelarNoCartao ==
    /\ \E cp \in Compras, v \in Valores, ds \in Descricoes, n \in ParcelasTentadas :
          CartaoDespesaCreate(cp.cartao, ds, v, cp.data, TRUE, n) /\ Cabe
    /\ UNCHANGED <<pedido, tabelas>>

EditarDespesaCartao ==
    /\ \E d \in Ids(contas), v \in ValoresEdicao, dp \in DatasEdicao,
          ds \in Descricoes :
          CartaoDespesaUpdate(d, ds, v, dp)
    /\ UNCHANGED <<pedido, tabelas>>

ExcluirDespesaCartao ==
    /\ \E d \in Ids(contas), g \in BOOLEAN : CartaoDespesaDelete(d, g)
    /\ UNCHANGED <<pedido, tabelas>>

PagarOuDesfazerFatura ==
    /\ \E f \in Ids(contas), acao \in {"pagar", "desfazer"} : FaturaPagar(f, acao)
    /\ UNCHANGED <<pedido, tabelas>>

ParcelarContaPagar ==
    /\ \E v \in Valores, dp \in DatasEdicao, ds \in Descricoes,
          n \in ParcelasTentadas :
          CadastrarContaPagar(ds, v, dp, TRUE, n) /\ Cabe
    /\ UNCHANGED <<pedido, tabelas>>

EditarConta ==
    /\ \E id \in Ids(contas), v \in ValoresEdicao, dp \in DatasEdicao,
          ds \in Descricoes, g \in BOOLEAN :
          ContaUpdate(id, ds, v, dp, g)
    /\ UNCHANGED <<pedido, tabelas>>

ApagarUmaConta ==
    /\ \E id \in Ids(contas), g \in BOOLEAN : ApagarConta(id, g)
    /\ UNCHANGED <<pedido, tabelas>>

MarcarPaga ==
    /\ \E id \in Ids(contas) : MarcarContaPaga(id)
    /\ UNCHANGED <<pedido, tabelas>>

NextCartao ==
    \/ ComprarNoCartao
    \/ ParcelarNoCartao
    \/ EditarDespesaCartao
    \/ ExcluirDespesaCartao
    \/ PagarOuDesfazerFatura
    \/ MarcarPaga

SpecCartao == Init /\ [][NextCartao]_vars

Next ==
    \/ ComprarNoCartao
    \/ ParcelarNoCartao
    \/ EditarDespesaCartao
    \/ ExcluirDespesaCartao
    \/ PagarOuDesfazerFatura
    \/ ParcelarContaPagar
    \/ EditarConta
    \/ ApagarUmaConta
    \/ MarcarPaga

Spec == Init /\ [][Next]_vars

\* the requests that create, edit and delete installments, on both screens
NextGrupos ==
    \/ ParcelarNoCartao
    \/ ParcelarContaPagar
    \/ EditarDespesaCartao
    \/ ExcluirDespesaCartao
    \/ EditarConta
    \/ ApagarUmaConta

SpecGrupos == Init /\ [][NextGrupos]_vars

------------------------------------------------------------------------------
(* Invoices and their expenses *)

Faturas(cs) == { i \in Ids(cs) : cs[i].eh_fatura_cartao }

\* the rows of installment purchases, and those of one group
Parcelas(cs) == { i \in Ids(cs) : cs[i].parcela_total # 0 }

Grupo(cs, g) == { i \in Ids(cs) : cs[i].grupo_parcelamento = g }

FaturasPagas(cs) == { f \in Faturas(cs) : cs[f].transacao_realizada }

\* the non-invoice rows whose invoice is paid
DespesasDeFaturaPaga(cs) ==
    { d \in Ids(cs) : /\ ~cs[d].eh_fatura_cartao
                      /\ cs[d].fatura # 0
                      /\ cs[cs[d].fatura].transacao_realizada }

\* a step created, removed or re-priced an expense of invoice f
DespesasMudaram(f) ==
    \/ DespesasDaFatura(contas, f) # DespesasDaFatura(contas', f)
    \/ \E d \in DespesasDaFatura(contas, f) : contas'[d].valor # contas[d].valor

\* C2: after every mutation (create, edit, delete) of an expense of an invoice
\* that is not realized, the invoice's amount is the sum of the amounts of the
\* expenses linked to it.
C2_FaturaIgualSomaDasDespesas ==
    [][\A f \in Faturas(contas) \cap Ids(contas') :
          (~contas[f].transacao_realizada /\ DespesasMudaram(f)) =>
              contas'[f].valor = SomaValores(contas', DespesasDaFatura(contas', f))]_vars

\* C3: once an invoice is realized no step edits or deletes one of its
\* expenses: each stays in the table with its description, amount and due date.
C3_DespesasDeFaturaPagaImutaveis ==
    [][\A d \in DespesasDeFaturaPaga(contas) :
          /\ d \in Ids(contas')
          /\ contas'[d].descricao = contas[d].descricao
          /\ contas'[d].valor = contas[d].valor
          /\ contas'[d].data_prevista = contas[d].data_prevista]_vars

PagaEm(linha, data) ==
    linha.transacao_realizada /\ linha.data_realizacao = data

\* C5: the payment of an invoice is one step that leaves the invoice and every
\* expense linked to it realized on the payment date (today from the screen),
\* and touches nothing else.
C5_PagarFaturaAtomico ==
    [][\A f \in Faturas(contas) :
          /\ FaturaPagar(f, "pagar") =>
                /\ Ids(contas') = Ids(contas)
                /\ PagaEm(contas'[f], Hoje)
                /\ DespesasDaFatura(contas', f) = DespesasDaFatura(contas, f)
                /\ \A d \in DespesasDaFatura(contas', f) : PagaEm(contas'[d], Hoje)
                /\ \A i \in Ids(contas) \ ({f} \cup DespesasDaFatura(contas, f)) :
                      contas'[i] = contas[i]
          /\ \A dp \in {Hoje, Data(2024, 2, 1)} :
                LET cs == pagar_fatura(contas, f, dp)
                IN  \A i \in {f} \cup DespesasDaFatura(contas, f) : PagaEm(cs[i], dp)]_vars

\* a paid invoice with two expenses, all three realized today
C5_Witness ==
    \E f \in Faturas(contas) :
        /\ PagaEm(contas[f], Hoje)
        /\ Cardinality(DespesasDaFatura(contas, f)) >= 2
        /\ \A d \in DespesasDaFatura(contas, f) : PagaEm(contas[d], Hoje)

\* the ledger after paying invoice f today and undoing the payment at once
PagarEDesfazer(cs, f) == desfazer_pagamento_fatura(pagar_fatura(cs, f, Hoje), f)

NaoRealizada(linha) ==
    ~linha.transacao_realizada /\ linha.data_realizacao = SemData

\* C6 as stated: pay then undo restores the invoice and every expense, except
\* an expense that was realized before, which ends unrealized with no date.
C6_IdaEVoltaRestaura ==
    \A f \in Faturas(contas) :
        LET cs == PagarEDesfazer(contas, f)
        IN  /\ cs[f] = contas[f]
            /\ \A d \in DespesasDaFatura(contas, f) :
                  IF contas[d].transacao_realizada
                  THEN cs[d] = [contas[d] EXCEPT !.transacao_realizada = FALSE,
                                                 !.data_realizacao = SemData]
                  ELSE cs[d] = contas[d]

\* C6 amended: pay then undo leaves the invoice and every expense unrealized
\* with no date and changes nothing else; so it restores exactly the entries
\* that were unrealized before, the invoice included.
C6_IdaEVoltaDesmarcaTudo ==
    \A f \in Faturas(contas) :
        LET cs == PagarEDesfazer(contas, f)
        IN  /\ Ids(cs) = Ids(contas)
            /\ \A i \in Ids(contas) :
                  IF i = f \/ i \in DespesasDaFatura(contas, f)
                  THEN /\ cs[i] = [contas[i] EXCEPT !.transacao_realizada = FALSE,
                                                   !.data_realizacao = SemData]
                       /\ (cs[i] = contas[i]) <=> NaoRealizada(contas[i])
                  ELSE cs[i] = contas[i]

\* a paid invoice with a paid expense and an expense added after the payment
C6_Witness ==
    \E f \in FaturasPagas(contas) :
        /\ \E d \in DespesasDaFatura(contas, f) : contas[d].transacao_realizada
        /\ \E d \in DespesasDaFatura(contas, f) : NaoRealizada(contas[d])

MesmoMes(d1, d2) == d1.ano = d2.ano /\ d1.mes = d2.mes

\* C7: a card has at most one invoice per year and month of due date; the
\* lookup returns the invoice of the month when there is one and otherwise
\* inserts exactly one row: an unrealized invoice of that card with amount 0.
C7_UmaFaturaPorCartaoEMes ==
    /\ \A i, j \in Faturas(contas) :
          (/\ contas[i].cartao = contas[j].cartao
           /\ MesmoMes(contas[i].data_prevista, contas[j].data_prevista)) => i = j
    /\ \A c \in Cartoes, m \in 1..4 :
          LET dv == Data(2024, m, 15)
              r == obter_ou_criar_fatura(Estado, c, dv)
              achadas == { i \in Faturas(contas) :
                             /\ contas[i].cartao = c
                             /\ MesmoMes(contas[i].data_prevista, dv) }
          IN  IF achadas # {}
              THEN r.st = Estado /\ r.id \in achadas
              ELSE /\ Ids(r.st.contas) = Ids(contas) \cup {r.id}
                   /\ r.id \notin Ids(contas)
                   /\ \A i \in Ids(contas) : r.st.contas[i] = contas[i]
                   /\ r.st.contas[r.id].eh_fatura_cartao
                   /\ r.st.contas[r.id].cartao = c
                   /\ r.st.contas[r.id].valor = 0
                   /\ r.st.contas[r.id].data_prevista = dv
                   /\ NaoRealizada(r.st.contas[r.id])
                   /\ r.st.contas[r.id].fatura = 0

\* the second purchase of a card and month found the invoice of the first: one
\* invoice, two expenses
C7_Witness ==
    \E f \in Faturas(contas) :
        /\ Faturas(contas) = {f}
        /\ Cardinality(DespesasDaFatura(contas, f)) = 2

\* the installments of group g are as many as their parcela_total says and sum
\* to the total of the purchase that created the group
GrupoCompleto(cs, tg, g) ==
    /\ g \in DOMAIN tg
    /\ \A i \in Grupo(cs, g) : cs[i].parcela_total = Cardinality(Grupo(cs, g))
    /\ SomaValores(cs, Grupo(cs, g)) = tg[g]

\* C9 as stated: in every reachable state every installment's group is complete.
C9_GruposSempreCompletos ==
    \A i \in Parcelas(contas) :
        GrupoCompleto(contas, totalGrupo, contas[i].grupo_parcelamento)

\* C9 amended: the step that creates an installment group leaves it complete,
\* with every row numbered 1..n once, and no later step adds a row to a group.
C9_GrupoCompletoAoCriar ==
    [][\A g \in 1..proxId :
          /\ (Grupo(contas, g) = {} /\ Grupo(contas', g) # {}) =>
                /\ GrupoCompleto(contas', totalGrupo', g)
                /\ \A i \in Grupo(contas', g) : contas'[i].parcela_total >= MinParcelas
                /\ \A k \in 1..Cardinality(Grupo(contas', g)) :
                      \E i \in Grupo(contas', g) : contas'[i].parcela_numero = k
          /\ Grupo(contas, g) # {} => Grupo(contas', g) \subseteq Grupo(contas, g)]_vars

\* an installment group of two rows that sums to the purchase total
C9_Witness ==
    \E i, j \in Parcelas(contas) :
        /\ i # j
        /\ contas[i].grupo_parcelamento = contas[j].grupo_parcelamento
        /\ GrupoCompleto(contas, totalGrupo, contas[i].grupo_parcelamento)

------------------------------------------------------------------------------
(* One installment purchase on an empty ledger, by each of the three forms: *)
(* SpecParcelas                                                             *)

Vias == {"cartao", "conta", "receita"}

InitParcelas ==
    /\ contas = << >>
    /\ proxId = 1
    /\ totalGrupo = << >>
    /\ tabelas = TabelasIniciais
    /\ \E via \in Vias, total \in 1..MaxTotal, n \in 1..(MaxParcelasCartao + 1) :
          pedido = [op |-> "parcelar", feito |-> FALSE, via |-> via,
                    total |-> total, n |-> n]

Pendente(via) ==
    pedido.op = "parcelar" /\ ~pedido.feito /\ pedido.via = via

ParcelarCartao ==
    /\ Pendente("cartao")
    /\ CartaoDespesaCreate(1, "compra", pedido.total, Data(2024, 1, 25), TRUE,
                           pedido.n)
    /\ pedido' = [pedido EXCEPT !.feito = TRUE]
    /\ UNCHANGED tabelas

ParcelarConta ==
    /\ Pendente("conta")
    /\ CadastrarContaPagar("compra", pedido.total, Data(2024, 1, 31), TRUE, pedido.n)
    /\ pedido' = [pedido EXCEPT !.feito = TRUE]
    /\ UNCHANGED tabelas

ParcelarReceita ==
    /\ Pendente("receita")
    /\ ReceitaCreate("compra", pedido.total, Data(2024, 1, 31), TRUE, pedido.n)
    /\ pedido' = [pedido EXCEPT !.feito = TRUE]
    /\ UNCHANGED tabelas

NextParcelas ==
    \/ ParcelarCartao
    \/ ParcelarConta
    \/ ParcelarReceita

SpecParcelas == InitParcelas /\ [][NextParcelas]_vars

NumeroAceito(via, n) ==
    n >= MinParcelas /\ n <= (IF via = "cartao" THEN MaxParcelasCartao
                                                ELSE MaxParcelasConta)

\* C1: the n installments of a split sum to the total; each is floor(total / n)
\* or one cent more; exactly (total mod n) of them get the extra cent, and they
\* are the installments 1..(total mod n).  A refused count creates nothing.
C1_ParcelasSomamTotal ==
    (pedido.op = "parcelar" /\ pedido.feito) =>
        IF NumeroAceito(pedido.via, pedido.n)
        THEN LET n == pedido.n
                 total == pedido.total
                 piso == CHOOSE q \in 0..total : q * n <= total /\ total < (q + 1) * n
                 extra == total - (piso * n)
                 ps == Parcelas(contas)
                 comExtra == { i \in ps : contas[i].valor = piso + 1 }
             IN  /\ Cardinality(ps) = n
                 /\ \A k \in 1..n :
                       Cardinality({ i \in ps : contas[i].parcela_numero = k }) = 1
                 /\ SomaValores(contas, ps) = total
                 /\ \A i \in ps : contas[i].valor \in {piso, piso + 1}
                 /\ Cardinality(comExtra) = extra
                 /\ \A i \in ps : (i \in comExtra) <=> (contas[i].parcela_numero <= extra)
        ELSE contas = << >>

\* 29 cents in 24 card installments: 2 cents in the first five, 1 cent after
C1_Witness ==
    /\ pedido.op = "parcelar"
    /\ pedido.feito
    /\ pedido.via = "cartao"
    /\ pedido.n = 24
    /\ pedido.total = 29
    /\ \E i, j \in Parcelas(contas) :
          /\ contas[i].parcela_numero = 5 /\ contas[i].valor = 2
          /\ contas[j].parcela_numero = 6 /\ contas[j].valor = 1

------------------------------------------------------------------------------
(* The due-date rule as a function of its inputs: SpecVenc *)

\* the dates a purchase can carry: every valid day of the years 2023..MaxAno
DatasDeCompra ==
    { Data(a, m, d) : a \in 2023..MaxAno, m \in 1..12, d \in 1..31 } \cap
    { x \in [ano : 2023..MaxAno, mes : 1..12, dia : 1..31] :
        x.dia <= UltimoDiaMes(x.ano, x.mes) }

InitVenc ==
    /\ contas = << >>
    /\ proxId = 1
    /\ totalGrupo = << >>
    /\ tabelas = TabelasIniciais
    /\ \E dc \in DatasDeCompra, f \in 1..31, v \in 1..31 :
          pedido = [op |-> "vencimento", feito |-> FALSE, data_compra |-> dc,
                 dia_fechamento |-> f, dia_vencimento |-> v, data |-> SemData]

CalcularVencimento ==
    /\ pedido.op = "vencimento"
    /\ ~pedido.feito
    /\ pedido' = [pedido EXCEPT !.feito = TRUE,
                          !.data = calcular_vencimento_fatura(
                                       pedido.data_compra, pedido.dia_fechamento,
                                       pedido.dia_vencimento)]
    /\ UNCHANGED tabelas
    /\ UNCHANGED <<contas, proxId, totalGrupo>>

NextVenc == CalcularVencimento

SpecVenc == InitVenc /\ [][NextVenc]_vars

\* C8: for every purchase date and every (closing_day, due_day) in 1..31 the due
\* date lies as many months after the purchase month as there are "late" steps
\* (purchase_day > closing_day, due_day <= closing_day), rolling the year over
\* December, on day min(due_day, last day of that month); the two examples of
\* the specification come out as 2024-01-15 and 2024-03-05.
C8_VencimentoFatura ==
    (pedido.op = "vencimento" /\ pedido.feito) =>
        LET dc == pedido.data_compra
            f == pedido.dia_fechamento
            v == pedido.dia_vencimento
            idx == (dc.ano * 12) + (dc.mes - 1)
                    + (IF dc.dia <= f THEN 0 ELSE 1)
                    + (IF v > f THEN 0 ELSE 1)
        IN  /\ pedido.data.ano = idx \div 12
            /\ pedido.data.mes = (idx % 12) + 1
            /\ pedido.data.dia = Min(v, UltimoDiaMes(idx \div 12, (idx % 12) + 1))
            /\ (dc = Data(2024, 1, 5) /\ f = 10 /\ v = 15) => pedido.data = Data(2024, 1, 15)
            /\ (dc = Data(2024, 1, 25) /\ f = 20 /\ v = 5) => pedido.data = Data(2024, 3, 5)

\* a purchase of 31 December after the closing day, due the month after the
\* closing month: the year rolls over and the due day is clamped to 29 February
C8_Witness ==
    /\ pedido.op = "vencimento"
    /\ pedido.feito
    /\ pedido.data_compra = Data(2023, 12, 31)
    /\ pedido.dia_fechamento = 30
    /\ pedido.dia_vencimento = 30
    /\ pedido.data = Data(2024, 2, 29)

------------------------------------------------------------------------------
(* Accounts created and marked paid by the forms, and rows written by the   *)
(* report import and by the restore of a backup: SpecImport                 *)

\* the uuid of a row of a backup file that is not in the table
UuidDoArquivo == 99

DataRelatorio == Data(2024, 2, 15)

RegistrosRelatorio ==
    { [data |-> DataRelatorio, tipo |-> tp, descricao |-> "Compra", valor |-> 5,
       realizada |-> r] : tp \in {"D", "R"}, r \in BOOLEAN }

CabeImport ==
    Cardinality(Ids(contas')) <= MaxImportadas /\ proxId' <= MaxImportadas + 1

LinhasBackup ==
    { [uuid |-> u, tipo |-> "D", descricao |-> "compra", valor |-> 5,
       data_prevista |-> DataRelatorio, transacao_realizada |-> r,
       data_realizacao |-> dr] :
         u \in {UuidDoArquivo} \cup { contas[i].uuid : i \in Ids(contas) },
         r \in BOOLEAN, dr \in {SemData, DataRelatorio} }

CriarConta ==
    /\ CadastrarContaPagar("compra", 5, DataRelatorio, FALSE, 1) /\ CabeImport
    /\ UNCHANGED <<pedido, tabelas>>

MarcarPagaImport ==
    /\ \E id \in Ids(contas) : MarcarContaPaga(id)
    /\ UNCHANGED <<pedido, tabelas>>

EnviarRelatorio ==
    \E r1 \in RegistrosRelatorio :
        \/ ImportarRelatorio(<<r1>>)
        \/ \E r2 \in RegistrosRelatorio : ImportarRelatorio(<<r1, r2>>)

ConfirmarRelatorio ==
    /\ \E modo \in {"criar", "sobrescrever"} : ImportarRelatorioPreview(modo)
    /\ CabeImport

RestaurarBackup ==
    /\ \E row \in LinhasBackup : importar_backup_freecash_upsert(row) /\ CabeImport
    /\ UNCHANGED <<pedido, tabelas>>

NextImport ==
    \/ CriarConta
    \/ MarcarPagaImport
    \/ EnviarRelatorio
    \/ ConfirmarRelatorio
    \/ RestaurarBackup

SpecImport == Init /\ [][NextImport]_vars

\* C10: in every reachable state a row has a realization date if and only if it
\* is realized.
C10_DataSeESomenteSeRealizada ==
    \A i \in Ids(contas) :
        contas[i].transacao_realizada <=> contas[i].data_realizacao # SemData

------------------------------------------------------------------------------
(* core/services/export_service.py and core/services/import_service.py:      *)
(* the .fcbk backup of all the rows of the user                              *)

Modelos == {"Categoria", "Conta", "CartaoCredito", "Assinatura"}

\* sorted(backup_models, key=get_priority) of the restore: Categoria has
\* priority 2 and Conta 9; CartaoCredito and Assinatura are not in the table
\* and get 100, in the order models.py declares them
get_backupable_models == <<"Categoria", "Conta", "CartaoCredito", "Assinatura">>

\* the ForeignKey fields of a model (other than usuario) and the model each
\* refers to
ChavesEstrangeiras(modelo) ==
    IF modelo = "Conta"
    THEN [categoria |-> "Categoria", cartao |-> "CartaoCredito",
          fatura |-> "Conta", assinatura |-> "Assinatura"]
    ELSE IF modelo = "Assinatura" THEN [categoria |-> "Categoria"]
    ELSE << >>

\* all the tables of the user as one record: model name -> [linhas, proxId]
BancoDeDados(cs, pid, tabs) ==
    [Conta         |-> [linhas |-> cs, proxId |-> pid],
     Categoria     |-> tabs.Categoria,
     CartaoCredito |-> tabs.CartaoCredito,
     Assinatura    |-> tabs.Assinatura]

\* Meta.ordering: Conta by ("-data_prevista", "-id"), the others by name, which
\* here follows the id; x comes before y in the queryset (or is y)
VemAntes(modelo, linhas, x, y) ==
    IF modelo = "Conta"
    THEN \/ DataNum(linhas[x].data_prevista) > DataNum(linhas[y].data_prevista)
         \/ /\ DataNum(linhas[x].data_prevista) = DataNum(linhas[y].data_prevista)
            /\ x >= y
    ELSE x <= y

\* model.objects.filter(usuario=user): the ids in queryset order
RECURSIVE EmOrdem(_, _, _)
EmOrdem(modelo, linhas, S) ==
    IF S = {} THEN << >>
    ELSE LET i == CHOOSE x \in S : \A y \in S : VemAntes(modelo, linhas, x, y)
         IN  <<i>> \o EmOrdem(modelo, linhas, S \ {i})

\* one exported row: every field but the id, a ForeignKey replaced by the uuid
\* of the row it points to (0 for None)
ExportarLinha(bd, modelo, i) ==
    LET obj == bd[modelo].linhas[i]
        fks == ChavesEstrangeiras(modelo)
    IN  [campo \in DOMAIN obj |->
            IF campo \in DOMAIN fks
            THEN IF obj[campo] # 0 /\ obj[campo] \in DOMAIN bd[fks[campo]].linhas
                 THEN bd[fks[campo]].linhas[obj[campo]].uuid
                 ELSE 0
            ELSE obj[campo]]

\* data["data"]["core"] of export_user_data: model name -> list of rows
export_user_data(bd) ==
    [modelo \in Modelos |->
        LET ordem == EmOrdem(modelo, bd[modelo].linhas, DOMAIN bd[modelo].linhas)
        IN  [k \in 1..Len(ordem) |-> ExportarLinha(bd, modelo, ordem[k])]]

\* null in a numeric field of a row of the file
Nulo == 0 - 1

\* a row the database refuses (NOT NULL): update_or_create raises, and so
\* does the create of the fallback
LinhaRecusada(row) == "valor" \in DOMAIN row /\ row.valor = Nulo

\* PASSO 2 of restore_user_data_fcbk, the loop over the models and over the
\* rows of each; v holds the locals: bd, uuid_to_id, dados, the position (m, k)
\* and whether an exception left the loop
RECURSIVE RestaurarLinhas(_)
RestaurarLinhas(v) ==
    IF v.m > Len(get_backupable_models) THEN v
    ELSE LET model_name == get_backupable_models[v.m]
             records == v.dados[model_name]
         IN  IF v.k > Len(records)
             THEN RestaurarLinhas([v EXCEPT !.m = @ + 1, !.k = 1])
             ELSE LET row == records[v.k]
                      uid == row.uuid
                      fks == ChavesEstrangeiras(model_name)
                      \* Resolve FKs
                      resolvida ==
                          [campo \in DOMAIN row |->
                              IF campo \in DOMAIN fks
                              THEN IF row[campo] # 0
                                      /\ row[campo] \in DOMAIN v.uuid_to_id[fks[campo]]
                                   THEN v.uuid_to_id[fks[campo]][row[campo]]
                                   ELSE 0
                              ELSE row[campo]]
                      tab == v.bd[model_name]
                      \* update_or_create(uuid=uid, usuario=user, defaults=row)
                      existentes == { i \in DOMAIN tab.linhas : tab.linhas[i].uuid = uid }
                      created == existentes = {}
                      id == IF created THEN tab.proxId ELSE CHOOSE i \in existentes : TRUE
                      linhas == IF created THEN tab.linhas @@ (id :> resolvida)
                                ELSE [tab.linhas EXCEPT ![id] = resolvida]
                  IN  IF uid = 0
                      THEN RestaurarLinhas([v EXCEPT !.k = @ + 1])
                      ELSE IF LinhaRecusada(row)
                      THEN [v EXCEPT !.falhou = TRUE]
                      ELSE RestaurarLinhas(
                               [v EXCEPT !.bd[model_name] =
                                             [linhas |-> linhas,
                                              proxId |-> IF created THEN @.proxId + 1
                                                         ELSE @.proxId],
                                         !.uuid_to_id[model_name] = (uid :> id) @@ @,
                                         !.k = @ + 1])

\* restore_user_data_fcbk: inside one transaction, delete every row of the
\* user, then import the rows of the backup
restore_user_data_fcbk(bd, data_dict) ==
    RestaurarLinhas([bd |-> [modelo \in Modelos |->
                                [linhas |-> << >>, proxId |-> bd[modelo].proxId]],
                     uuid_to_id |-> [modelo \in Modelos |-> << >>],
                     dados |-> data_dict, m |-> 1, k |-> 1, falhou |-> FALSE])

\* importar_universal of a .fcbk file whose content decrypts to data_dict; an
\* exception rolls the transaction back
importar_universal(data_dict) ==
    LET r == restore_user_data_fcbk(BancoDeDados(contas, proxId, tabelas), data_dict)
    IN  IF r.falhou
        THEN Recusar /\ UNCHANGED tabelas
        ELSE /\ contas' = r.bd.Conta.linhas
             /\ proxId' = r.bd.Conta.proxId
             /\ tabelas' = [tabelas EXCEPT !.Categoria     = r.bd.Categoria,
                                           !.CartaoCredito = r.bd.CartaoCredito,
                                           !.Assinatura    = r.bd.Assinatura]
             /\ UNCHANGED totalGrupo

------------------------------------------------------------------------------
(* SpecRestore: card purchases, invoice payments, export of a backup and its *)
(* restore                                                                   *)

\* no restore is started once the ids of the cards passed MaxId; the ledger of
\* this specification holds at most MaxRestauradas rows
MaxId == 6

MaxRestauradas == 3

CabeRestore == Cardinality(Ids(contas')) <= MaxRestauradas

ComprarParaBackup ==
    /\ \E c \in DOMAIN tabelas.CartaoCredito.linhas, cp \in Compras :
          CartaoDespesaCreate(c, "compra", 5, cp.data, FALSE, 1) /\ CabeRestore
    /\ UNCHANGED <<pedido, tabelas>>

PagarParaBackup ==
    /\ \E f \in Ids(contas) : FaturaPagar(f, "pagar")
    /\ UNCHANGED <<pedido, tabelas>>

\* ExportarView: the user downloads the backup of the current rows
ExportarBackup ==
    /\ pedido' = [op |-> "fcbk",
                  dados |-> export_user_data(BancoDeDados(contas, proxId, tabelas))]
    /\ UNCHANGED <<contas, proxId, totalGrupo, tabelas>>

\* ImportarView.post with the file downloaded before
ImportarBackup ==
    /\ pedido.op = "fcbk"
    /\ tabelas.CartaoCredito.proxId <= MaxId
    /\ importar_universal(pedido.dados)
    /\ UNCHANGED pedido

NextRestore ==
    \/ ComprarParaBackup
    \/ PagarParaBackup
    \/ ExportarBackup
    \/ ImportarBackup

SpecRestore == Init /\ [][NextRestore]_vars

\* C11: in every reachable state every card invoice has its card set and
\* belongs to no invoice, also after a backup restore.
C11_FaturaTemCartaoESemFatura ==
    \A i \in Ids(contas) :
        contas[i].eh_fatura_cartao => contas[i].cartao # 0 /\ contas[i].fatura = 0

------------------------------------------------------------------------------
(* core/services/assinatura_service.py and core/views/assinaturas.py *)

\* a row of Assinatura
Assinatura(descricao, valor, tipo, dia_vencimento, categoria, proxima_geracao) ==
    [uuid |-> 0, descricao |-> descricao, valor |-> valor, tipo |-> tipo,
     dia_vencimento |-> dia_vencimento, categoria |-> categoria,
     ativa |-> TRUE, proxima_geracao |-> proxima_geracao]

\* mes_referencia.replace(day=dia_vencimento), and on ValueError (the month has
\* no such day) replace(day=min(dia_vencimento, 28))
VencimentoNoMes(mes_referencia, dia_vencimento) ==
    LET dia == Min(dia_vencimento, 28)
    IN  IF dia_vencimento <= UltimoDiaMes(mes_referencia.ano, mes_referencia.mes)
        THEN Data(mes_referencia.ano, mes_referencia.mes, dia_vencimento)
        ELSE Data(mes_referencia.ano, mes_referencia.mes, dia)

\* the next generation counted from the reference month, not from the
\* previous value
gerar_conta_da_assinatura_do_mes(v, a, mes_referencia) ==
    LET assinatura == v.assinaturas[a]
        mes == IF mes_referencia = SemData THEN assinatura.proxima_geracao
               ELSE mes_referencia
        linha == [Conta(assinatura.tipo, assinatura.descricao, assinatura.valor,
                        VencimentoNoMes(mes, assinatura.dia_vencimento))
                    EXCEPT !.categoria = assinatura.categoria, !.assinatura = a]
        st == Inserir([contas |-> v.contas, proxId |-> v.proxId], linha)
    IN  [contas |-> st.contas, proxId |-> st.proxId,
         assinaturas |-> [v.assinaturas EXCEPT
                              ![a].proxima_geracao = add_months(mes, 1)]]

\* gerar_conta_da_assinatura on v = [contas, proxId, assinaturas];
\* mes_referencia = SemData is the default None; relativedelta(months=1) is
\* add_months(., 1)
gerar_conta_da_assinatura(v, a, mes_referencia) ==
    LET assinatura == v.assinaturas[a]
        mes == IF mes_referencia = SemData THEN assinatura.proxima_geracao
               ELSE mes_referencia
        linha == [Conta(assinatura.tipo, assinatura.descricao, assinatura.valor,
                        VencimentoNoMes(mes, assinatura.dia_vencimento))
                    EXCEPT !.categoria = assinatura.categoria, !.assinatura = a]
        st == Inserir([contas |-> v.contas, proxId |-> v.proxId], linha)
    IN  [contas |-> st.contas, proxId |-> st.proxId,
         assinaturas |-> [v.assinaturas EXCEPT
                              ![a].proxima_geracao = add_months(@, 1)]]

\* the filter with proxima_geracao__lt
Vencidas_antes_de_hoje(assinaturas) ==
    { a \in DOMAIN assinaturas :
        /\ assinaturas[a].ativa
        /\ DataNum(assinaturas[a].proxima_geracao) < DataNum(Hoje) }

\* Assinatura.objects.filter(ativa=True, proxima_geracao__lte=hoje)
Vencidas(assinaturas) ==
    { a \in DOMAIN assinaturas :
        /\ assinaturas[a].ativa
        /\ DataNum(assinaturas[a].proxima_geracao) <= DataNum(Hoje) }

\* the loop of gerar_contas_pendentes over the queryset fila, from position k;
\* w ranges over the one value of the locals, so that they are computed once
RECURSIVE GerarDaFila(_)
GerarDaFila(v) ==
    CHOOSE fim \in
        { IF w.k > Len(w.fila) THEN w
          ELSE GerarDaFila(
                   [k |-> w.k + 1, fila |-> w.fila] @@
                   gerar_conta_da_assinatura(w, w.fila[w.k], SemData)) :
            w \in {v} } : TRUE

\* every subscription, due or not
gerar_contas_pendentes_sem_filtro(v) ==
    GerarDaFila([contas |-> v.contas, proxId |-> v.proxId,
                 assinaturas |-> v.assinaturas, k |-> 1,
                 fila |-> EmOrdem("Assinatura", v.assinaturas,
                                  DOMAIN v.assinaturas)])

gerar_contas_pendentes(v) ==
    GerarDaFila([contas |-> v.contas, proxId |-> v.proxId,
                 assinaturas |-> v.assinaturas, k |-> 1,
                 fila |-> EmOrdem("Assinatura", v.assinaturas,
                                  Vencidas(v.assinaturas))])

EstadoAssinaturas ==
    [contas |-> contas, proxId |-> proxId, assinaturas |-> tabelas.Assinatura.linhas]

\* the state a call of the service leaves
Gravar(r) ==
    /\ contas' = r.contas
    /\ proxId' = r.proxId
    /\ tabelas' = [tabelas EXCEPT !.Assinatura.linhas = r.assinaturas]
    /\ UNCHANGED totalGrupo

\* AssinaturaCreateView.post
AssinaturaCreate(descricao, valor, tipo, dia_vencimento, categoria, proxima_geracao) ==
    LET dia == IF dia_vencimento < 1 THEN 1
               ELSE IF dia_vencimento > 31 THEN 31 ELSE dia_vencimento
        id == tabelas.Assinatura.proxId
        linha == [Assinatura(descricao, valor, tipo, dia, categoria, proxima_geracao)
                    EXCEPT !.uuid = id]
    IN  /\ tabelas' = [tabelas EXCEPT !.Assinatura =
                           [linhas |-> @.linhas @@ (id :> linha), proxId |-> id + 1]]
        /\ UNCHANGED <<contas, proxId, totalGrupo>>

\* AssinaturaUpdateView.post with the fields of the row and the box "ativa"
AssinaturaUpdate(a, ativa) ==
    /\ a \in DOMAIN tabelas.Assinatura.linhas
    /\ tabelas' = [tabelas EXCEPT !.Assinatura.linhas[a].ativa = ativa]
    /\ UNCHANGED <<contas, proxId, totalGrupo>>

\* AssinaturaGerarContaView.post calls the service with mes_referencia = None;
\* any other caller may pass a month
GerarContaDaAssinatura(a, mes_referencia) ==
    /\ a \in DOMAIN tabelas.Assinatura.linhas
    /\ Gravar(gerar_conta_da_assinatura(EstadoAssinaturas, a, mes_referencia))

GerarContasPendentes ==
    \E r \in {gerar_contas_pendentes(EstadoAssinaturas)} : Gravar(r)

------------------------------------------------------------------------------
(* SpecAssinaturas *)

MaxAssinaturas == 2

MaxGeradas == 2

DiasDeVencimento == {31}

ProximasGeracoes == {Data(2024, 1, 31), Data(2024, 3, 5), Data(2024, 4, 1)}

MesesDeReferencia == {SemData, Data(2024, 6, 15)}

CabeGeradas == Cardinality(Ids(contas')) <= MaxGeradas

CriarAssinatura ==
    /\ tabelas.Assinatura.proxId <= MaxAssinaturas
    /\ \E dia \in DiasDeVencimento, proxima \in ProximasGeracoes :
          AssinaturaCreate("aluguel", 5, "D", dia, 1, proxima)
    /\ UNCHANGED pedido

EditarAssinatura ==
    /\ \E a \in DOMAIN tabelas.Assinatura.linhas, ativa \in BOOLEAN :
          AssinaturaUpdate(a, ativa)
    /\ UNCHANGED pedido

GerarUmaConta ==
    /\ \E a \in DOMAIN tabelas.Assinatura.linhas, mes \in MesesDeReferencia :
          GerarContaDaAssinatura(a, mes) /\ CabeGeradas
    /\ UNCHANGED pedido

GerarPendentes ==
    /\ GerarContasPendentes /\ CabeGeradas
    /\ UNCHANGED pedido

NextAssinaturas ==
    \/ CriarAssinatura
    \/ EditarAssinatura
    \/ GerarUmaConta
    \/ GerarPendentes

SpecAssinaturas == Init /\ [][NextAssinaturas]_vars

\* the number of the month of a date, counted from year 0
IndiceDoMes(d) == (d.ano * 12) + d.mes

\* new is old moved one calendar month ahead: the next month, the same day or
\* the last day of that month when it is shorter
UmMesDepois(old, new) ==
    /\ IndiceDoMes(new) = IndiceDoMes(old) + 1
    /\ new.dia = Min(old.dia, UltimoDiaMes(new.ano, new.mes))

\* the step created exactly one row, unrealized, linked to subscription a and
\* with its kind and amount
UmaContaDaAssinatura(a) ==
    /\ Ids(contas) \subseteq Ids(contas')
    /\ \A i \in Ids(contas) : contas'[i] = contas[i]
    /\ \E i \in Ids(contas') \ Ids(contas) :
          /\ Ids(contas') = Ids(contas) \cup {i}
          /\ ~contas'[i].transacao_realizada
          /\ contas'[i].data_realizacao = SemData
          /\ contas'[i].assinatura = a
          /\ contas'[i].tipo = tabelas.Assinatura.linhas[a].tipo
          /\ contas'[i].valor = tabelas.Assinatura.linhas[a].valor

\* C12: every call of gerar_conta_da_assinatura, with any reference month,
\* creates exactly one unrealized row linked to the subscription with its kind
\* and amount, and moves proxima_geracao one calendar month ahead of its
\* previous value; the other subscriptions are left alone.
C12_GerarContaCriaUmaEAvancaUmMes ==
    [][\A a \in DOMAIN tabelas.Assinatura.linhas, mes \in MesesDeReferencia :
          GerarContaDaAssinatura(a, mes) =>
              /\ UmaContaDaAssinatura(a)
              /\ UmMesDepois(tabelas.Assinatura.linhas[a].proxima_geracao,
                             tabelas'.Assinatura.linhas[a].proxima_geracao)
              /\ \A b \in DOMAIN tabelas.Assinatura.linhas \ {a} :
                    tabelas'.Assinatura.linhas[b] = tabelas.Assinatura.linhas[b]]_vars

\* a row generated for a month other than the one the subscription stood at,
\* whose subscription stands one month after its own previous value on a
\* clamped day
C12_Witness ==
    \E i \in Ids(contas) :
        /\ contas[i].assinatura \in DOMAIN tabelas.Assinatura.linhas
        /\ contas[i].data_prevista = Data(2024, 6, 28)
        /\ tabelas.Assinatura.linhas[contas[i].assinatura].proxima_geracao
             = Data(2024, 2, 29)

------------------------------------------------------------------------------
(* SpecPendentes: the scheduled task calls gerar_contas_pendentes again and  *)
(* again on a table of subscriptions, with the day fixed                     *)

DiasPendentes == {10, 31}

ProximasPendentes ==
    {Data(2023, 11, 30), Data(2024, 1, 31), Data(2024, 3, 5), Hoje,
     Data(2024, 3, 11), Data(2024, 4, 1)}

AssinaturasPendentes ==
    { [Assinatura("aluguel", 5, "D", dia, 1, proxima) EXCEPT !.ativa = ativa] :
        dia \in DiasPendentes, proxima \in ProximasPendentes, ativa \in BOOLEAN }

InitPendentes ==
    /\ contas = << >>
    /\ proxId = 1
    /\ totalGrupo = << >>
    /\ pedido = [op |-> "nenhum"]
    /\ \E n \in 1..MaxAssinaturas :
          \E linhas \in [1..n -> AssinaturasPendentes] :
              tabelas = [TabelasIniciais EXCEPT !.Assinatura =
                            [linhas |-> [a \in 1..n |-> [linhas[a] EXCEPT !.uuid = a]],
                             proxId |-> n + 1]]

GerarTodasPendentes ==
    /\ GerarContasPendentes
    /\ UNCHANGED pedido

NextPendentes == GerarTodasPendentes

\* the task is scheduled again after every run
SpecPendentes == InitPendentes /\ [][NextPendentes]_vars /\ WF_vars(GerarTodasPendentes)

\* subscription a is active and its date of generation is today or earlier
EstaVencida(a) ==
    /\ tabelas.Assinatura.linhas[a].ativa
    /\ \/ tabelas.Assinatura.linhas[a].proxima_geracao.ano < Hoje.ano
       \/ /\ tabelas.Assinatura.linhas[a].proxima_geracao.ano = Hoje.ano
          /\ tabelas.Assinatura.linhas[a].proxima_geracao.mes < Hoje.mes
       \/ /\ tabelas.Assinatura.linhas[a].proxima_geracao.ano = Hoje.ano
          /\ tabelas.Assinatura.linhas[a].proxima_geracao.mes = Hoje.mes
          /\ tabelas.Assinatura.linhas[a].proxima_geracao.dia <= Hoje.dia

\* the rows the step added for subscription a
GeradasPara(a) ==
    { i \in Ids(contas') \ Ids(contas) : contas'[i].assinatura = a }

\* C13: one call of gerar_contas_pendentes adds exactly one row for each active
\* subscription whose proxima_geracao is today or earlier and moves it a single
\* month ahead, however many cycles are overdue; it adds no row for and leaves
\* unchanged every other subscription, and touches no existing row.
C13_UmaContaPorAssinaturaVencida ==
    [][GerarContasPendentes =>
          /\ \A i \in Ids(contas) : i \in Ids(contas') /\ contas'[i] = contas[i]
          /\ \A i \in Ids(contas') \ Ids(contas) :
                contas'[i].assinatura \in DOMAIN tabelas.Assinatura.linhas
          /\ \A a \in DOMAIN tabelas.Assinatura.linhas :
                IF EstaVencida(a)
                THEN /\ Cardinality(GeradasPara(a)) = 1
                     /\ UmMesDepois(tabelas.Assinatura.linhas[a].proxima_geracao,
                                    tabelas'.Assinatura.linhas[a].proxima_geracao)
                ELSE /\ GeradasPara(a) = {}
                     /\ tabelas'.Assinatura.linhas[a] = tabelas.Assinatura.linhas[a]]_vars

\* after one call: a subscription that was several cycles overdue has one row
\* and is still overdue, next to an inactive subscription with no row
C13_Witness ==
    /\ Cardinality(Ids(contas)) = 1
    /\ \E a, b \in DOMAIN tabelas.Assinatura.linhas :
          /\ tabelas.Assinatura.linhas[a].proxima_geracao = Data(2023, 12, 30)
          /\ EstaVencida(a)
          /\ \E i \in Ids(contas) : contas[i].assinatura = a
          /\ ~tabelas.Assinatura.linhas[b].ativa
          /\ tabelas.Assinatura.linhas[b].proxima_geracao = Data(2024, 1, 31)

NenhumaVencida == \A a \in DOMAIN tabelas.Assinatura.linhas : ~EstaVencida(a)

\* C14: with the day fixed, repeated calls of gerar_contas_pendentes reach a
\* state where no active subscription is due and stay there; from then on a
\* call generates no row, and every call before it moves each overdue
\* subscription strictly ahead.
C14_ChamadasRepetidasEsgotamAsVencidas ==
    /\ <>[]NenhumaVencida
    /\ [][/\ NenhumaVencida => contas' = contas
          /\ \A a \in DOMAIN tabelas.Assinatura.linhas :
                EstaVencida(a) =>
                    DataNum(tabelas'.Assinatura.linhas[a].proxima_geracao)
                      > DataNum(tabelas.Assinatura.linhas[a].proxima_geracao)]_vars

\* the end of a catch-up of four cycles: 2023-11-30 was moved to 2024-03-29 by
\* four calls, each of which left one row
C14_Witness ==
    /\ NenhumaVencida
    /\ \E a \in DOMAIN tabelas.Assinatura.linhas :
          /\ tabelas.Assinatura.linhas[a].ativa
          /\ tabelas.Assinatura.linhas[a].proxima_geracao = Data(2024, 3, 29)
          /\ Cardinality({ i \in Ids(contas) : contas[i].assinatura = a }) = 4

------------------------------------------------------------------------------
(* core/services/import_planilha.py: the legacy workbook, one sheet (year    *)
(* AnoLegado) with one month column; a line is [secao, descricao, valor]     *)

AnoLegado == 2024

MesLegado == 1

\* the row upsert_conta_legado creates: a ledger row with the legacy
\* provenance fields
ContaLegado(tipo, descricao, valor, data_prevista, origem_linha) ==
    [is_legacy |-> TRUE, origem_ano |-> AnoLegado, origem_mes |-> MesLegado,
     origem_linha |-> origem_linha]
    @@ [Conta(tipo, descricao, valor, data_prevista)
          EXCEPT !.transacao_realizada = DataNum(data_prevista) < DataNum(Hoje),
                 !.data_realizacao = IF DataNum(data_prevista) < DataNum(Hoje)
                                     THEN data_prevista ELSE SemData,
                 !.categoria = 1]

\* queryset.first() under Meta.ordering ("-data_prevista", "-id"); 0 for None
PrimeiraDoQueryset(cs, S) ==
    IF S = {} THEN 0 ELSE EmOrdem("Conta", cs, S)[1]

\* upsert_conta_legado with created_by read as usuario and the legacy columns
\* present: the strong key, then the legacy provenance, then create
upsert_conta_legado_reparada(st, linha) ==
    LET forte == { i \in Ids(st.contas) :
                     /\ st.contas[i].tipo = linha.tipo
                     /\ st.contas[i].descricao = linha.descricao
                     /\ st.contas[i].valor = linha.valor
                     /\ st.contas[i].data_prevista = linha.data_prevista }
        rastreio == { i \in Ids(st.contas) :
                        /\ "is_legacy" \in DOMAIN st.contas[i]
                        /\ st.contas[i].is_legacy
                        /\ st.contas[i].origem_ano = linha.origem_ano
                        /\ st.contas[i].origem_mes = linha.origem_mes
                        /\ st.contas[i].origem_linha = linha.origem_linha }
        conta == IF forte # {} THEN PrimeiraDoQueryset(st.contas, forte)
                 ELSE PrimeiraDoQueryset(st.contas, rastreio)
    IN  IF conta = 0
        THEN Inserir(st, linha)
        ELSE [st EXCEPT !.contas[conta] = [linha EXCEPT !.uuid = st.contas[conta].uuid]]

\* upsert_conta_legado as it runs against core/models.py: its first statement
\* is Conta.objects.filter(created_by=usuario, ...), and Conta has no field
\* created_by (nor is_legacy, origem_ano, origem_mes, origem_linha), so filter
\* raises FieldError before any row is read or written
upsert_conta_legado(st, linha) ==
    [contas |-> st.contas, proxId |-> st.proxId, falhou |-> TRUE]

\* the loop over the lines of a section of the sheet, from line k; every line
\* has a positive cell in the month column and no "d/NN" in its label, so it
\* is due on day 1
RECURSIVE LinhasDaPlanilha(_)
LinhasDaPlanilha(v) ==
    CHOOSE fim \in
        { IF w.k > Len(w.linhas) THEN w
          ELSE LET l == w.linhas[w.k]
                   venc == Data(AnoLegado, MesLegado, 1)
                   st == upsert_conta_legado_reparada(
                             [contas |-> w.contas, proxId |-> w.proxId],
                             ContaLegado("D", l.descricao, l.valor, venc,
                                         <<"CONTA", l.secao, l.descricao>>))
               IN  LinhasDaPlanilha([w EXCEPT !.contas = st.contas,
                                              !.proxId = st.proxId, !.k = @ + 1]) :
            w \in {v} } : TRUE

\* the import with its lookups and calls repaired: the loop runs
importar_planilha_legado_padrao_reparada(st, linhas) ==
    LET r == LinhasDaPlanilha([contas |-> st.contas, proxId |-> st.proxId,
                               linhas |-> linhas, k |-> 1])
    IN  [contas |-> r.contas, proxId |-> r.proxId, falhou |-> FALSE]

\* importar_planilha_legado_padrao(arquivo, usuario, sobrescrever=False), under
\* @transaction.atomic.  get_or_create_categorias_padrao looks Categoria up by
\* created_by, a field Categoria does not have (its owner is usuario): the
\* lookup raises FieldError before the sheet is read.  (The loop would raise as
\* well: it calls upsert_conta_legado(created_by=...), whose parameter is
\* usuario.)  The exception rolls the transaction back.
importar_planilha_legado_padrao(st, linhas) ==
    [contas |-> st.contas, proxId |-> st.proxId, falhou |-> TRUE]

------------------------------------------------------------------------------
(* SpecLegado: the same workbook imported again and again *)

MaxLinhas == 3

MaxExecucoes == 2

LinhasLegado ==
    [secao : {"FIXOS EU", "FIXOS CASA"}, descricao : {"Luz"}, valor : {10, 20}]

Planilhas ==
    UNION { [1..n -> LinhasLegado] : n \in 1..MaxLinhas }

InitLegado ==
    /\ contas = << >>
    /\ proxId = 1
    /\ totalGrupo = << >>
    /\ tabelas = TabelasIniciais
    /\ \E linhas \in Planilhas :
          pedido = [op |-> "legado", linhas |-> linhas, execucoes |-> 0,
                    falhas |-> 0]

ImportarLegado ==
    /\ pedido.op = "legado"
    /\ pedido.execucoes < MaxExecucoes
    /\ LET r == importar_planilha_legado_padrao(Estado, pedido.linhas)
       IN  /\ contas' = r.contas
           /\ proxId' = r.proxId
           /\ pedido' = [pedido EXCEPT !.execucoes = @ + 1,
                                       !.falhas = IF r.falhou THEN @ + 1 ELSE @]
    /\ UNCHANGED <<totalGrupo, tabelas>>

NextLegado == ImportarLegado

SpecLegado == InitLegado /\ [][NextLegado]_vars

------------------------------------------------------------------------------
(* core/services/secure_backup.py: encrypt_data and decrypt_data, with the   *)
(* bytes as terms                                                             *)

\* a Python value: its type t, the number n or the date d it holds; a str is
\* the n-th text of the program ("txt") or the text a conversion made of n or d
Valor(t, forma, n, d) == [t |-> t, forma |-> forma, n |-> n, d |-> d]

\* hashlib.sha256(payload).digest(): no two payloads share a digest
sha256(payload) == <<"sha256", payload>>

\* PBKDF2HMAC(SHA256, length=32, salt, iterations=100000).derive(password)
PBKDF2HMAC(password, salt) == <<"pbkdf2", password, salt>>

\* AESGCM(key).encrypt(nonce, data, None)
AESGCM_encrypt(key, nonce, data) == [chave |-> key, nonce |-> nonce, claro |-> data]

\* AESGCM(key).decrypt(nonce, ciphertext, None) does not raise InvalidTag
AESGCM_autentica(key, nonce, ciphertext) ==
    key = ciphertext.chave /\ nonce = ciphertext.nonce

\* the types json.dumps writes without calling default
TiposJson == {"int", "str", "float", "bool", "None"}

\* Decimal to str instead of float
_to_serializable_str(obj) ==
    IF obj.t = "Decimal" THEN Valor("str", "str", obj.n, SemData)
    ELSE IF obj.t = "date" THEN Valor("str", "isoformat", 0, obj.d)
    ELSE IF obj.t = "UUID" THEN Valor("str", "str", obj.n, SemData)
    ELSE obj

\* _to_serializable: float(Decimal), obj.isoformat(), str(UUID); a float holds
\* the hundredths of the number it is nearest to
_to_serializable(obj) ==
    IF obj.t = "Decimal" THEN Valor("float", "", obj.n, SemData)
    ELSE IF obj.t = "date" THEN Valor("str", "isoformat", 0, obj.d)
    ELSE IF obj.t = "UUID" THEN Valor("str", "str", obj.n, SemData)
    ELSE obj

\* json.dumps(data_dict, default=_to_serializable): the text of a JSON object
json_dumps(data_dict) ==
    [json |-> TRUE,
     valor |-> [campo \in DOMAIN data_dict |->
                   IF data_dict[campo].t \in TiposJson THEN data_dict[campo]
                   ELSE _to_serializable(data_dict[campo])]]

\* a text that is no JSON document
NaoJson == [json |-> FALSE, valor |-> << >>]

\* encrypt_data with the salt and nonce os.urandom returned; the result is the
\* base64 text of public_hash + salt + nonce + ciphertext
encrypt_data(data_dict, password, salt, nonce) ==
    LET json_data == json_dumps(data_dict)
        key == PBKDF2HMAC(password, salt)
        ciphertext == AESGCM_encrypt(key, nonce, json_data)
        payload == [salt |-> salt, nonce |-> nonce, ciphertext |-> ciphertext]
    IN  [b64 |-> TRUE, stored_hash |-> sha256(payload), payload |-> payload]

\* the except clause: an exception whose text has "VIOLADO" is raised again,
\* any other becomes ValueError("Senha incorreta ou arquivo corrompido.")
Excecao(violado, etapas) ==
    [ok |-> FALSE, erro |-> IF violado THEN "VIOLADO" ELSE "GENERICO",
     dados |-> << >>, etapas |-> etapas]

\* key derivation and AEAD decryption first, the hash compared afterwards
decrypt_data_hash_depois(encrypted_base64, password) ==
    IF ~encrypted_base64.b64
    THEN Excecao(FALSE, {"b64decode"})
    ELSE LET payload == encrypted_base64.payload
             key == PBKDF2HMAC(password, payload.salt)
         IN  IF ~AESGCM_autentica(key, payload.nonce, payload.ciphertext)
             THEN Excecao(FALSE, {"b64decode", "pbkdf2", "aesgcm"})
             ELSE IF sha256(payload) # encrypted_base64.stored_hash
             THEN Excecao(TRUE, {"b64decode", "pbkdf2", "aesgcm", "sha256"})
             ELSE IF ~payload.ciphertext.claro.json
             THEN Excecao(FALSE, {"b64decode", "pbkdf2", "aesgcm", "sha256", "json"})
             ELSE [ok |-> TRUE, erro |-> "", dados |-> payload.ciphertext.claro.valor,
                   etapas |-> {"b64decode", "pbkdf2", "aesgcm", "sha256", "json"}]

\* decrypt_data (decrypt_data_fcbk of import_service.py is the same text):
\* the outcome, with the steps that ran
decrypt_data(encrypted_base64, password) ==
    IF ~encrypted_base64.b64
    THEN Excecao(FALSE, {"b64decode"})
    ELSE LET payload == encrypted_base64.payload
             key == PBKDF2HMAC(password, payload.salt)
         IN  IF sha256(payload) # encrypted_base64.stored_hash
             THEN Excecao(TRUE, {"b64decode", "sha256"})
             ELSE IF ~AESGCM_autentica(key, payload.nonce, payload.ciphertext)
             THEN Excecao(FALSE, {"b64decode", "sha256", "pbkdf2", "aesgcm"})
             ELSE IF ~payload.ciphertext.claro.json
             THEN Excecao(FALSE, {"b64decode", "sha256", "pbkdf2", "aesgcm", "json"})
             ELSE [ok |-> TRUE, erro |-> "", dados |-> payload.ciphertext.claro.valor,
                   etapas |-> {"b64decode", "sha256", "pbkdf2", "aesgcm", "json"}]

------------------------------------------------------------------------------
(* SpecCripto: a dict is encrypted, the file may be changed on the way, and  *)
(* is decrypted with some password                                           *)

Senhas == {"segredo", "outra"}

\* the largest salt and nonce os.urandom returns here
MaxAleatorio == 2

ValoresPython ==
    { Valor("int", "", 5, SemData), Valor("str", "txt", 1, SemData),
      Valor("float", "", 510, SemData), Valor("None", "", 0, SemData),
      Valor("Decimal", "", 500, SemData), Valor("Decimal", "", 510, SemData),
      Valor("date", "", 0, Data(2024, 3, 10)), Valor("UUID", "", 7, SemData) }

Dicionarios == [{"a", "b"} -> ValoresPython]

\* what happens to the file between encrypt_data and decrypt_data
Adulteracoes == {"hash", "cifra", "cifra e hash", "texto", "base64"}

\* a ciphertext no key authenticates
Lixo == [chave |-> <<"nenhuma">>, nonce |-> 0, claro |-> NaoJson]

Adulterar(arquivo, senha, como) ==
    LET payload == arquivo.payload
        outra == [payload EXCEPT !.ciphertext = Lixo]
        texto == [payload EXCEPT !.ciphertext =
                      AESGCM_encrypt(PBKDF2HMAC(senha, payload.salt),
                                     payload.nonce, NaoJson)]
    IN  IF como = "hash" THEN [arquivo EXCEPT !.stored_hash = sha256(outra)]
        ELSE IF como = "cifra" THEN [arquivo EXCEPT !.payload = outra]
        ELSE IF como = "cifra e hash"
        THEN [arquivo EXCEPT !.payload = outra, !.stored_hash = sha256(outra)]
        ELSE IF como = "texto"
        THEN [arquivo EXCEPT !.payload = texto, !.stored_hash = sha256(texto)]
        ELSE [arquivo EXCEPT !.b64 = FALSE]

InitCripto ==
    /\ contas = << >>
    /\ proxId = 1
    /\ totalGrupo = << >>
    /\ tabelas = TabelasIniciais
    /\ \E dados \in Dicionarios, senha \in Senhas :
          pedido = [op |-> "cripto", fase |-> "inicio", dados |-> dados,
                    senha |-> senha]

Cifrar ==
    /\ pedido.op = "cripto" /\ pedido.fase = "inicio"
    /\ \E salt \in 1..MaxAleatorio, nonce \in 1..MaxAleatorio :
          pedido' = [op |-> "cripto", fase |-> "cifrado", dados |-> pedido.dados,
                     senha |-> pedido.senha, adulterado |-> "nao",
                     arquivo |-> encrypt_data(pedido.dados, pedido.senha, salt, nonce)]
    /\ UNCHANGED <<contas, proxId, totalGrupo, tabelas>>

AdulterarArquivo ==
    /\ pedido.op = "cripto" /\ pedido.fase = "cifrado" /\ pedido.adulterado = "nao"
    /\ \E como \in Adulteracoes :
          pedido' = [pedido EXCEPT !.adulterado = como,
                                   !.arquivo = Adulterar(@, pedido.senha, como)]
    /\ UNCHANGED <<contas, proxId, totalGrupo, tabelas>>

Decifrar ==
    /\ pedido.op = "cripto" /\ pedido.fase = "cifrado"
    /\ \E password \in Senhas :
          pedido' = [op |-> "cripto", fase |-> "decifrado", dados |-> pedido.dados,
                     senha |-> pedido.senha, adulterado |-> pedido.adulterado,
                     password |-> password,
                     resultado |-> decrypt_data(pedido.arquivo, password)]
    /\ UNCHANGED <<contas, proxId, totalGrupo, tabelas>>

NextCripto ==
    \/ Cifrar
    \/ AdulterarArquivo
    \/ Decifrar

SpecCripto == InitCripto /\ [][NextCripto]_vars

Decifrado == pedido.op = "cripto" /\ pedido.fase = "decifrado"

\* C16: decrypt_data compares the hash before it derives a key or decrypts; a
\* file whose hash does not match is rejected with the integrity error,
\* whatever the password, and without those steps; every other failure (wrong
\* password, ciphertext no key authenticates, text that is no JSON, input that
\* is no base64) is the generic error; a failure returns no data.
C16_HashAntesDeDecifrar ==
    Decifrado =>
        /\ pedido.adulterado \in {"hash", "cifra"} =>
              /\ ~pedido.resultado.ok
              /\ pedido.resultado.erro = "VIOLADO"
              /\ pedido.resultado.etapas \cap {"pbkdf2", "aesgcm", "json"} = {}
        /\ \/ pedido.adulterado \in {"cifra e hash", "texto", "base64"}
           \/ pedido.adulterado = "nao" /\ pedido.password # pedido.senha
           => ~pedido.resultado.ok /\ pedido.resultado.erro = "GENERICO"
        /\ ~pedido.resultado.ok => pedido.resultado.dados = << >>
        /\ pedido.resultado.ok =>
              pedido.adulterado = "nao" /\ pedido.password = pedido.senha

\* a file whose stored hash was replaced, decrypted with the right password:
\* rejected as violated although its ciphertext would have decrypted
C16_Witness ==
    /\ Decifrado
    /\ pedido.adulterado = "hash"
    /\ pedido.password = pedido.senha
    /\ pedido.resultado.erro = "VIOLADO"

\* Python's ==: values of one type are equal when they hold the same; a
\* Decimal equals a float only when the float is exactly the Decimal's number,
\* which for hundredths means a multiple of 0.25; no str equals a date or UUID
PyIgual(x, y) ==
    IF x.t = y.t THEN x = y
    ELSE IF {x.t, y.t} = {"Decimal", "float"} THEN x.n = y.n /\ x.n % 25 = 0
    ELSE FALSE

\* the file arrived as encrypt_data wrote it and the password is the same
IdaEVolta ==
    Decifrado /\ pedido.adulterado = "nao" /\ pedido.password = pedido.senha

------------------------------------------------------------------------------
(* the foreign keys of the restored rows (SpecRestore)                       *)

\* the rows of the file for a model hold one with this uuid
NoArquivo(dados, modelo, uuid) ==
    \E j \in 1..Len(dados[modelo]) : dados[modelo][j].uuid = uuid

\* in the database bd the row restored from row has every foreign key, whose
\* uuid is a row of the file, pointing to the row of bd with that uuid
ChavesResolvidas(bd, dados, modelo, row) ==
    LET fks == ChavesEstrangeiras(modelo)
    IN  \A i \in DOMAIN bd[modelo].linhas :
            bd[modelo].linhas[i].uuid = row.uuid =>
                \A campo \in DOMAIN fks :
                    (row[campo] # 0 /\ NoArquivo(dados, fks[campo], row[campo])) =>
                        LET alvo == bd[modelo].linhas[i][campo]
                        IN  /\ alvo # 0
                            /\ alvo \in DOMAIN bd[fks[campo]].linhas
                            /\ bd[fks[campo]].linhas[alvo].uuid = row[campo]

\* C18: after a restore every foreign key of a restored row whose referenced
\* uuid is a row of the same file points to the new local row of that uuid
\* and is not null.
C18_ChavesApontamParaAsLinhasNovas ==
    [][ImportarBackup =>
          \A modelo \in Modelos :
              \A k \in 1..Len(pedido.dados[modelo]) :
                  ChavesResolvidas(BancoDeDados(contas', proxId', tabelas'),
                                   pedido.dados, modelo, pedido.dados[modelo][k])]_vars

------------------------------------------------------------------------------
(* SpecAtomico: installment purchases that raise partway and restores of a   *)
(* file with a row the database refuses                                      *)

\* rows of the ledger of this specification
MaxAtomico == 6

\* restores tried with one file
MaxTentativas == 1

\* purchase dates: the last two have installments falling after MAXYEAR
DatasAtomico == {Data(2024, 1, 5), Data(MAXYEAR, 10, 5), Data(MAXYEAR, 11, 5)}

CabeAtomico == Cardinality(Ids(contas')) <= MaxAtomico

InitAtomico ==
    /\ contas = << >>
    /\ proxId = 1
    /\ totalGrupo = << >>
    /\ tabelas = TabelasIniciais
    /\ pedido = [op |-> "nenhum"]

ComprarParcelado ==
    \E c \in DOMAIN tabelas.CartaoCredito.linhas, data \in DatasAtomico,
       n \in ParcelasTentadas :
        /\ CartaoDespesaCreate(c, "compra", MaxTotal, data, TRUE, n)
        /\ CabeAtomico
        /\ pedido' = [op |-> "compra", cartao |-> c, data |-> data, n |-> n]
        /\ UNCHANGED tabelas

ExportarParaRestaurar ==
    /\ pedido' = [op |-> "fcbk", tentativas |-> 0,
                  dados |-> export_user_data(BancoDeDados(contas, proxId, tabelas))]
    /\ UNCHANGED <<contas, proxId, totalGrupo, tabelas>>

\* the file is edited: the amount of one ledger row becomes null
CorromperBackup ==
    /\ pedido.op = "fcbk" /\ pedido.tentativas = 0
    /\ \E k \in 1..Len(pedido.dados.Conta) :
          /\ pedido.dados.Conta[k].valor # Nulo
          /\ pedido' = [pedido EXCEPT !.dados.Conta[k].valor = Nulo]
    /\ UNCHANGED <<contas, proxId, totalGrupo, tabelas>>

RestaurarArquivo ==
    /\ pedido.op = "fcbk" /\ pedido.tentativas < MaxTentativas
    /\ tabelas.CartaoCredito.proxId <= MaxId
    /\ importar_universal(pedido.dados)
    /\ pedido' = [pedido EXCEPT !.tentativas = @ + 1]

NextAtomico ==
    \/ ComprarParcelado
    \/ ExportarParaRestaurar
    \/ CorromperBackup
    \/ RestaurarArquivo

SpecAtomico == InitAtomico /\ [][NextAtomico]_vars

\* the purchase of pedido' has its first installment within MAXYEAR and a
\* later one after it: add_months raises after rows were created
CompraFalhaNoMeio ==
    /\ pedido'.op = "compra"
    /\ LET cfg == tabelas.CartaoCredito.linhas[pedido'.cartao]
           venc == calcular_vencimento_fatura(pedido'.data, cfg.dia_fechamento,
                                              cfg.dia_vencimento)
       IN  /\ venc.ano <= MAXYEAR
           /\ add_months(venc, pedido'.n - 1).ano > MAXYEAR

\* the step is a restore of a file with a ledger row whose amount is null
RestoreFalha ==
    /\ pedido.op = "fcbk" /\ pedido'.op = "fcbk"
    /\ pedido'.tentativas = pedido.tentativas + 1
    /\ \E k \in 1..Len(pedido.dados.Conta) : pedido.dados.Conta[k].valor = Nulo

\* C19: when the installment creation of a card purchase or a backup restore
\* fails partway, the database is as it was before the operation: no
\* installment, no new invoice, no changed invoice total, no row deleted.
C19_FalhaNaoDeixaRastro ==
    [][(CompraFalhaNoMeio \/ RestoreFalha) =>
          /\ contas' = contas
          /\ proxId' = proxId
          /\ totalGrupo' = totalGrupo
          /\ tabelas' = tabelas]_vars

\* a restore was tried with a file of rows whose second ledger row is refused
\* (the delete of every row and the restore of the first had run), and the
\* ledger still holds its rows with their cards
C19_Witness ==
    /\ pedido.op = "fcbk" /\ pedido.tentativas = 1
    /\ Len(pedido.dados.Conta) >= 2
    /\ pedido.dados.Conta[1].valor # Nulo
    /\ pedido.dados.Conta[2].valor = Nulo
    /\ Cardinality(Ids(contas)) = Len(pedido.dados.Conta)
    /\ \A i \in Ids(contas) : contas[i].cartao # 0

------------------------------------------------------------------------------
(* core/services/importar_unificado.py: importar_planilha_unificada, the     *)
(* router of the spreadsheet imports, and the table of import logs           *)

\* the backup row of the file has a uuid and a date and no row of the table has
\* that uuid: update_or_create takes its create path, which raises FieldError
BackupLevantaExcecao(st, row) ==
    /\ row.uuid # 0
    /\ row.data_prevista # SemData
    /\ \A i \in Ids(st.contas) : st.contas[i].uuid # row.uuid

\* LogImportacao.objects.create(...)
RegistrarLog(logs, linha) ==
    [linhas |-> logs.linhas @@ (logs.proxId :> linha), proxId |-> logs.proxId + 1]

\* what the router leaves when it ends: the ledger and the log table as the
\* statements of the call wrote them, whether it ends with an exception, and
\* the text of the exception
FimDoRouter(st, logs, excecao, mensagem) ==
    [st |-> st, logs |-> logs, excecao |-> excecao, mensagem |-> mensagem]

\* the body of importar_planilha_unificada, without the transaction around it
importar_planilha_unificada(st, logs, arquivo, password) ==
    IF arquivo.zip /\ password = ""
    THEN FimDoRouter(st, logs, TRUE, "requer senha")
    ELSE IF arquivo.zip /\ password # arquivo.senha
    THEN FimDoRouter(st, logs, TRUE, "senha incorreta")
    ELSE \* the try block, then the except clause: log the failure and raise
         IF arquivo.conteudo = "backup"
         THEN IF BackupLevantaExcecao(st, arquivo.linha)
              THEN FimDoRouter(st, RegistrarLog(logs,
                                   LogImportacao("backup", FALSE, "FieldError")),
                               TRUE, "FieldError")
              ELSE FimDoRouter(importar_backup_conta(st, arquivo.linha),
                               RegistrarLog(logs,
                                   LogImportacao("backup", TRUE, "importado")),
                               FALSE, "")
         ELSE IF arquivo.conteudo = "legado"
         THEN LET r == importar_planilha_legado_padrao(st, arquivo.planilha)
              IN  IF r.falhou
                  THEN FimDoRouter([contas |-> r.contas, proxId |-> r.proxId],
                                   RegistrarLog(logs,
                                       LogImportacao("backup", FALSE, "FieldError")),
                                   TRUE, "FieldError")
                  ELSE FimDoRouter([contas |-> r.contas, proxId |-> r.proxId],
                                   RegistrarLog(logs,
                                       LogImportacao("legado", TRUE, "importada")),
                                   FALSE, "")
         ELSE FimDoRouter(st, RegistrarLog(logs,
                              LogImportacao("backup", FALSE, "nao reconhecido")),
                          TRUE, "nao reconhecido")

------------------------------------------------------------------------------
(* SpecRouter: accounts created by the form and files sent to the routers    *)

\* log rows in the table of this specification
MaxLogs == 2

SenhasDoZip == {"", "certa", "errada"}

ArquivosEnviados ==
    { [zip |-> z, senha |-> "certa", conteudo |-> c, linha |-> row,
       planilha |-> <<[secao |-> "FIXOS EU", descricao |-> "Luz", valor |-> 10]>>] :
         z \in BOOLEAN, c \in {"backup", "legado", "outro"}, row \in LinhasBackup }

\* a call of importar_planilha_unificada: @transaction.atomic commits what the
\* body wrote when it returns and undoes it when it raises
ImportarPlanilhaUnificada ==
    \E arquivo \in ArquivosEnviados, password \in SenhasDoZip :
        LET r == importar_planilha_unificada(Estado, tabelas.LogImportacao,
                                             arquivo, password)
        IN  /\ IF r.excecao
               THEN Recusar /\ UNCHANGED tabelas
               ELSE /\ contas' = r.st.contas
                    /\ proxId' = r.st.proxId
                    /\ tabelas' = [tabelas EXCEPT !.LogImportacao = r.logs]
                    /\ UNCHANGED totalGrupo
            /\ tabelas'.LogImportacao.proxId <= MaxLogs + 1
            /\ pedido' = [op |-> "importar", router |-> "importar_planilha_unificada",
                          excecao |-> r.excecao, mensagem |-> r.mensagem,
                          registrou |-> r.logs # tabelas.LogImportacao]

\* a call of importar_universal with a file that is no .fcbk, or without the
\* password: ValueError
ImportarUniversalRecusado ==
    /\ \E mensagem \in {"senha obrigatoria", "formato nao suportado"} :
          pedido' = [op |-> "importar", router |-> "importar_universal",
                     excecao |-> TRUE, mensagem |-> mensagem, registrou |-> FALSE]
    /\ UNCHANGED <<contas, proxId, totalGrupo, tabelas>>

CriarContaParaImportar ==
    /\ CadastrarContaPagar("compra", 5, DataRelatorio, FALSE, 1) /\ CabeImport
    /\ UNCHANGED <<pedido, tabelas>>

NextRouter ==
    \/ ImportarPlanilhaUnificada
    \/ ImportarUniversalRecusado
    \/ CriarContaParaImportar

SpecRouter == Init /\ [][NextRouter]_vars

\* C20: after a call of the import router that ended with an exception the
\* table of import logs holds a row with success = false and the message of
\* the failure.
C20_FalhaFicaRegistrada ==
    (pedido.op = "importar" /\ pedido.excecao) =>
        \E i \in DOMAIN tabelas.LogImportacao.linhas :
            /\ ~tabelas.LogImportacao.linhas[i].sucesso
            /\ tabelas.LogImportacao.linhas[i].mensagem = pedido.mensagem

------------------------------------------------------------------------------
(* SpecConcorrente: two import requests of one user, each in its own         *)
(* transaction, interleaved statement by statement                           *)

Requisicoes == {1, 2}

\* the import entry points a request can call
Roteadores == {"importar_planilha_unificada", "importar_universal"}

\* rows one import writes before it ends
MaxEscritas == 2

\* rows of the ledger of this specification
MaxConcorrentes == 3

\* advisory_lock(987654321) is the first statement of the router
TomaATrava(router) == router = "importar_planilha_unificada"

InitConcorrente ==
    /\ contas = << >>
    /\ proxId = 1
    /\ totalGrupo = << >>
    /\ tabelas = TabelasIniciais
    /\ pedido = [op |-> "concorrente", trava |-> 0,
                 proc |-> [p \in Requisicoes |->
                              [router |-> "nenhum", pc |-> "fora", escritas |-> 0,
                               fim |-> "nenhum"]]]

\* the view calls a router: @transaction.atomic opens the transaction
IniciarImportacao(p) ==
    /\ pedido.proc[p].pc = "fora"
    /\ \E router \in Roteadores :
          pedido' = [pedido EXCEPT !.proc[p] =
                        [router |-> router, pc |-> "inicio", escritas |-> 0,
                         fim |-> "nenhum"]]
    /\ UNCHANGED <<contas, proxId, totalGrupo, tabelas>>

\* pg_advisory_xact_lock returns once no other transaction holds the lock
TomarTrava(p) ==
    /\ pedido.proc[p].pc = "inicio"
    /\ TomaATrava(pedido.proc[p].router)
    /\ pedido.trava = 0
    /\ pedido' = [pedido EXCEPT !.trava = p, !.proc[p].pc = "importando"]
    /\ UNCHANGED <<contas, proxId, totalGrupo, tabelas>>

\* a router that takes no lock goes on to its first read
SeguirSemTrava(p) ==
    /\ pedido.proc[p].pc = "inicio"
    /\ ~TomaATrava(pedido.proc[p].router)
    /\ pedido' = [pedido EXCEPT !.proc[p].pc = "importando"]
    /\ UNCHANGED <<contas, proxId, totalGrupo, tabelas>>

\* one row read or written inside the transaction
EscreverLinha(p) ==
    /\ pedido.proc[p].pc = "importando"
    /\ pedido.proc[p].escritas < MaxEscritas
    /\ pedido' = [pedido EXCEPT !.proc[p].escritas = @ + 1]
    /\ UNCHANGED <<contas, proxId, totalGrupo, tabelas>>

\* the transaction ends; a transaction-scoped lock is released with it
SoltarTrava(p) == IF pedido.trava = p THEN 0 ELSE pedido.trava

\* the router returns: the transaction commits the rows it wrote
ConfirmarImportacao(p) ==
    /\ pedido.proc[p].pc = "importando"
    /\ LET st == IF pedido.proc[p].escritas > 0
                 THEN Inserir(Estado, Conta("D", "compra", 5, DataRelatorio))
                 ELSE Estado
       IN  /\ contas' = st.contas
           /\ proxId' = st.proxId
    /\ Cardinality(Ids(contas')) <= MaxConcorrentes
    /\ pedido' = [pedido EXCEPT !.trava = SoltarTrava(p),
                                !.proc[p] = [router |-> "nenhum", pc |-> "fora",
                                             escritas |-> 0, fim |-> "commit"]]
    /\ UNCHANGED <<totalGrupo, tabelas>>

\* the router raises: the transaction is rolled back
AbortarImportacao(p) ==
    /\ pedido.proc[p].pc = "importando"
    /\ pedido' = [pedido EXCEPT !.trava = SoltarTrava(p),
                                !.proc[p] = [router |-> "nenhum", pc |-> "fora",
                                             escritas |-> 0, fim |-> "rollback"]]
    /\ UNCHANGED <<contas, proxId, totalGrupo, tabelas>>

NextConcorrente ==
    \E p \in Requisicoes :
        \/ IniciarImportacao(p)
        \/ TomarTrava(p)
        \/ SeguirSemTrava(p)
        \/ EscreverLinha(p)
        \/ ConfirmarImportacao(p)
        \/ AbortarImportacao(p)

SpecConcorrente == InitConcorrente /\ [][NextConcorrente]_vars

\* C21: an import reads and writes rows only while it holds the advisory
\* lock, so two imports of the user are never inside their transactions'
\* work at the same time.
C21_ImportacoesNaoConcorrem ==
    /\ \A p \in Requisicoes :
          pedido.proc[p].pc = "importando" => pedido.trava = p
    /\ Cardinality({ p \in Requisicoes : pedido.proc[p].pc = "importando" }) <= 1

------------------------------------------------------------------------------
(* the due date of a generated subscription row (SpecAssinaturas)            *)

\* C22: the row gerar_conta_da_assinatura creates is due in the month of the
\* reference month (by default the subscription's proxima_geracao), on day
\* min(dia_vencimento, 28), and on the last day of that month when
\* dia_vencimento is not a day of it.
C22_VencimentoDaContaGerada ==
    [][\A a \in DOMAIN tabelas.Assinatura.linhas, mes \in MesesDeReferencia :
          GerarContaDaAssinatura(a, mes) =>
              \A i \in Ids(contas') \ Ids(contas) :
                  LET assinatura == tabelas.Assinatura.linhas[a]
                      ref == IF mes = SemData THEN assinatura.proxima_geracao ELSE mes
                      ultimo == UltimoDiaMes(ref.ano, ref.mes)
                  IN  /\ contas'[i].data_prevista.ano = ref.ano
                      /\ contas'[i].data_prevista.mes = ref.mes
                      /\ contas'[i].data_prevista.dia =
                            IF assinatura.dia_vencimento <= ultimo
                            THEN Min(assinatura.dia_vencimento, 28)
                            ELSE ultimo]_vars

------------------------------------------------------------------------------
(* the delete of card installments (Spec)                                    *)

\* the rows a step removed
Removidas == Ids(contas) \ Ids(contas')

\* row d is an installment of a card purchase
EhParcelaDeCartao(d) ==
    /\ ~contas[d].eh_fatura_cartao
    /\ contas[d].cartao # 0
    /\ contas[d].eh_parcelada
    /\ contas[d].grupo_parcelamento # 0

\* C23: a step that deletes a card installment removes either that row alone
\* or every row of its installment group, and leaves every unpaid invoice that
\* had a removed row as a child with the sum of its remaining children.
C23_ApagarParcelaRecalculaFaturas ==
    [][\A d \in Removidas :
          EhParcelaDeCartao(d) =>
              /\ \/ Removidas = {d}
                 \/ Removidas = Grupo(contas, contas[d].grupo_parcelamento)
              /\ \A f \in { contas[i].fatura : i \in Removidas } \ {0} :
                    (f \in Ids(contas') /\ ~contas[f].transacao_realizada) =>
                        contas'[f].valor =
                            SomaValores(contas', DespesasDaFatura(contas', f))]_vars

------------------------------------------------------------------------------
(* SpecUpsert: upsert_conta_legado called for one cell of the sheet on a     *)
(* ledger of rows the forms created                                          *)

\* rows in the ledger before the call
MaxAntes == 2

LinhasDoLivro ==
    { Conta("D", "Luz", v, Data(AnoLegado, MesLegado, d)) : v \in {10, 20}, d \in {1, 5, 9} }

CelulasDaPlanilha ==
    { ContaLegado("D", "Luz", v, Data(AnoLegado, MesLegado, 1), <<"CONTA", sec, "Luz">>) :
        v \in {10, 20}, sec \in {"FIXOS EU", "FIXOS CASA"} }

InitUpsert ==
    /\ \E n \in 0..MaxAntes :
          \E linhas \in [1..n -> LinhasDoLivro] :
              /\ contas = [i \in 1..n |-> [linhas[i] EXCEPT !.uuid = i]]
              /\ proxId = n + 1
    /\ totalGrupo = << >>
    /\ tabelas = TabelasIniciais
    /\ pedido = [op |-> "upsert", feito |-> FALSE]

ChamarUpsert ==
    /\ pedido.op = "upsert" /\ ~pedido.feito
    /\ \E linha \in CelulasDaPlanilha :
          \E r \in {upsert_conta_legado(Estado, linha)} :
              /\ contas' = r.contas
              /\ proxId' = r.proxId
              /\ pedido' = [op |-> "upsert", feito |-> TRUE, linha |-> linha,
                            antes |-> contas, excecao |-> r.falhou]
    /\ UNCHANGED <<totalGrupo, tabelas>>

NextUpsert == ChamarUpsert

SpecUpsert == InitUpsert /\ [][NextUpsert]_vars

\* the rows of cs with the kind, label, amount and due date of linha
ChaveForte(cs, linha) ==
    { i \in Ids(cs) : /\ cs[i].tipo = linha.tipo
                      /\ cs[i].descricao = linha.descricao
                      /\ cs[i].valor = linha.valor
                      /\ cs[i].data_prevista = linha.data_prevista }

\* the legacy rows of cs with the origin of linha
ChaveDeOrigem(cs, linha) ==
    { i \in Ids(cs) : /\ "is_legacy" \in DOMAIN cs[i]
                      /\ cs[i].is_legacy
                      /\ cs[i].origem_ano = linha.origem_ano
                      /\ cs[i].origem_mes = linha.origem_mes
                      /\ cs[i].origem_linha = linha.origem_linha }

\* row i of the ledger holds the imported values of linha
TemOsValores(i, linha) ==
    /\ contas[i].tipo = linha.tipo
    /\ contas[i].descricao = linha.descricao
    /\ contas[i].valor = linha.valor
    /\ contas[i].data_prevista = linha.data_prevista
    /\ contas[i].transacao_realizada = linha.transacao_realizada
    /\ contas[i].data_realizacao = linha.data_realizacao
    /\ contas[i].categoria = linha.categoria

\* C24: upsert_conta_legado uses a row matching (kind, label, amount, due
\* date) when there is one, otherwise a legacy row of the same origin,
\* otherwise creates one row; a row it uses gets the imported values and no
\* second row is created.
C24_UpsertLegadoResolveNaOrdem ==
    (pedido.op = "upsert" /\ pedido.feito) =>
        LET forte == ChaveForte(pedido.antes, pedido.linha)
            origem == ChaveDeOrigem(pedido.antes, pedido.linha)
        IN  IF forte # {}
            THEN /\ Ids(contas) = Ids(pedido.antes)
                 /\ \E i \in forte : TemOsValores(i, pedido.linha)
            ELSE IF origem # {}
            THEN /\ Ids(contas) = Ids(pedido.antes)
                 /\ \E i \in origem : TemOsValores(i, pedido.linha)
            ELSE \E i \in Ids(contas) \ Ids(pedido.antes) :
                    /\ Ids(contas) = Ids(pedido.antes) \cup {i}
                    /\ TemOsValores(i, pedido.linha)

------------------------------------------------------------------------------
(* core/services/import_planilha.py: inferir_forma_pagamento.  A text is the *)
(* sequence of its characters                                                *)

FP_PIX == "PIX"
FP_BOLETO == "Boleto"
FP_CREDITO == "Cartão de Crédito"
FP_DEBITO == "Cartão de Débito"

Minusculas == <<"a", "b", "c", "d", "e", "i", "l", "o", "p", "r", "t", "u", "x", "z", "é">>
Maiusculas == <<"A", "B", "C", "D", "E", "I", "L", "O", "P", "R", "T", "U", "X", "Z", "É">>

\* str.upper()
upper(texto) ==
    [k \in 1..Len(texto) |->
        IF \E n \in 1..Len(Minusculas) : Minusculas[n] = texto[k]
        THEN Maiusculas[CHOOSE n \in 1..Len(Minusculas) : Minusculas[n] = texto[k]]
        ELSE texto[k]]

\* str.strip()
strip(texto) ==
    LET S == { k \in 1..Len(texto) : texto[k] # " " }
    IN  IF S = {} THEN << >>
        ELSE SubSeq(texto, CHOOSE k \in S : \A j \in S : k <= j,
                           CHOOSE k \in S : \A j \in S : k >= j)

\* palavra in texto
Contem(palavra, texto) ==
    \E k \in 1..(Len(texto) - Len(palavra) + 1) :
        SubSeq(texto, k, k + Len(palavra) - 1) = palavra

\* the keywords looked up before the section
inferir_forma_pagamento_palavra_antes(desc, secao, is_receita) ==
    LET texto == upper(strip(desc))
        sec == upper(strip(secao))
    IN  IF Contem(<<"P", "I", "X">>, texto) THEN FP_PIX
        ELSE IF Contem(<<"B", "O", "L", "E", "T", "O">>, texto) THEN FP_BOLETO
        ELSE IF \/ Contem(<<"D", "E", "B", "I", "T", "O">>, texto)
                \/ Contem(<<"D", "É", "B", "I", "T", "O">>, texto) THEN FP_DEBITO
        ELSE IF \/ Contem(<<"C", "R", "E", "D", "I", "T", "O">>, texto)
                \/ Contem(<<"C", "R", "É", "D", "I", "T", "O">>, texto) THEN FP_CREDITO
        ELSE IF sec = <<"C", "A", "R", "T", "A", "O">> THEN FP_CREDITO
        ELSE IF is_receita THEN FP_PIX
        ELSE FP_BOLETO

\* inferir_forma_pagamento(desc, secao, is_receita, formas_padrao): the name of
\* the payment method it returns
inferir_forma_pagamento(desc, secao, is_receita) ==
    LET texto == upper(strip(desc))
        sec == upper(strip(secao))
    IN  IF sec = <<"C", "A", "R", "T", "A", "O">> THEN FP_CREDITO
        ELSE IF Contem(<<"P", "I", "X">>, texto) THEN FP_PIX
        ELSE IF Contem(<<"B", "O", "L", "E", "T", "O">>, texto) THEN FP_BOLETO
        ELSE IF \/ Contem(<<"D", "E", "B", "I", "T", "O">>, texto)
                \/ Contem(<<"D", "É", "B", "I", "T", "O">>, texto) THEN FP_DEBITO
        ELSE IF \/ Contem(<<"C", "R", "E", "D", "I", "T", "O">>, texto)
                \/ Contem(<<"C", "R", "É", "D", "I", "T", "O">>, texto) THEN FP_CREDITO
        ELSE IF is_receita THEN FP_PIX
        ELSE FP_BOLETO

------------------------------------------------------------------------------
(* SpecForma: inferir_forma_pagamento applied to the labels and sections of  *)
(* a sheet                                                                   *)

\* labels, each with the keywords a reader finds in it
Rotulos ==
    { [texto |-> <<"L", "u", "z">>, palavras |-> {}],
      [texto |-> <<"p", "i", "x">>, palavras |-> {"PIX"}],
      [texto |-> <<"P", "i", "x", "e", "l">>, palavras |-> {"PIX"}],
      [texto |-> <<"b", "o", "l", "e", "t", "o", " ", "p", "i", "x">>, palavras |-> {"PIX", "BOLETO"}],
      [texto |-> <<"B", "o", "l", "e", "t", "o">>, palavras |-> {"BOLETO"}],
      [texto |-> <<"d", "é", "b", "i", "t", "o">>, palavras |-> {"DEBITO"}],
      [texto |-> <<"D", "e", "b", "i", "t", "o">>, palavras |-> {"DEBITO"}],
      [texto |-> <<"c", "r", "e", "d", "i", "t", "o", " ", "b", "o", "l", "e", "t", "o">>, palavras |-> {"BOLETO", "CREDITO"}],
      [texto |-> <<"C", "r", "é", "d", "i", "t", "o">>, palavras |-> {"CREDITO"}],
      [texto |-> <<"d", "e", "b", "i", "t", "o", " ", "c", "r", "e", "d", "i", "t", "o">>, palavras |-> {"DEBITO", "CREDITO"}],
      [texto |-> <<>>, palavras |-> {}],
      [texto |-> <<"p", " ", "i", "x">>, palavras |-> {}],
      [texto |-> <<"c", "a", "r", "t", "a", "o">>, palavras |-> {}] }

\* section names, each with whether it is the card section
Secoes ==
    { [texto |-> <<"C", "A", "R", "T", "A", "O">>, cartao |-> TRUE],
      [texto |-> <<" ", "c", "a", "r", "t", "a", "o", " ">>, cartao |-> TRUE],
      [texto |-> <<"F", "I", "X", "O", "S", " ", "E", "U">>, cartao |-> FALSE],
      [texto |-> <<>>, cartao |-> FALSE],
      [texto |-> <<"C", "A", "R", "T", "A", "O", " ", "X">>, cartao |-> FALSE] }

InitForma ==
    /\ contas = << >>
    /\ proxId = 1
    /\ totalGrupo = << >>
    /\ tabelas = TabelasIniciais
    /\ \E rotulo \in Rotulos, secao \in Secoes, is_receita \in BOOLEAN :
          pedido = [op |-> "forma", feito |-> FALSE, rotulo |-> rotulo,
                    secao |-> secao, is_receita |-> is_receita, forma |-> ""]

InferirForma ==
    /\ pedido.op = "forma" /\ ~pedido.feito
    /\ pedido' = [pedido EXCEPT !.feito = TRUE,
                                !.forma = inferir_forma_pagamento(
                                              pedido.rotulo.texto, pedido.secao.texto,
                                              pedido.is_receita)]
    /\ UNCHANGED <<contas, proxId, totalGrupo, tabelas>>

NextForma == InferirForma

SpecForma == InitForma /\ [][NextForma]_vars

\* C25: a row of the card section gets the credit card whatever its label
\* holds; otherwise the first of PIX, BOLETO, DEBIT, CREDIT that the label
\* holds selects the method; otherwise an income row gets PIX and an expense
\* row Boleto.
C25_FormaDePagamentoPorPrioridade ==
    (pedido.op = "forma" /\ pedido.feito) =>
        pedido.forma =
            IF pedido.secao.cartao THEN FP_CREDITO
            ELSE IF "PIX" \in pedido.rotulo.palavras THEN FP_PIX
            ELSE IF "BOLETO" \in pedido.rotulo.palavras THEN FP_BOLETO
            ELSE IF "DEBITO" \in pedido.rotulo.palavras THEN FP_DEBITO
            ELSE IF "CREDITO" \in pedido.rotulo.palavras THEN FP_CREDITO
            ELSE IF pedido.is_receita THEN FP_PIX
            ELSE FP_BOLETO

\* a row of the card section whose label holds PIX and BOLETO got the credit
\* card
C25_Witness ==
    /\ pedido.op = "forma" /\ pedido.feito
    /\ pedido.secao.cartao
    /\ pedido.rotulo.palavras = {"PIX", "BOLETO"}
    /\ pedido.forma = FP_CREDITO

------------------------------------------------------------------------------
(* SpecCorrida: two requests of CartaoDespesaCreateView.post for one card    *)
(* and invoice month, interleaved statement by statement.  The branch of a   *)
(* single purchase opens no transaction: each statement commits on its own   *)

\* the card and the purchase date of both requests, and the amount of each
CartaoDaCorrida == 1

CompraDaCorrida == Data(2024, 1, 5)

ValorDaCorrida(p) == IF p = 1 THEN 5 ELSE 7

VencimentoDaCorrida ==
    calcular_vencimento_fatura(CompraDaCorrida,
                               CartaoCfg(CartaoDaCorrida).dia_fechamento,
                               CartaoCfg(CartaoDaCorrida).dia_vencimento)

\* the ledger after one earlier purchase of 0.05 on the card in that month
LivroComFatura ==
    LET r == obter_ou_criar_fatura([contas |-> << >>, proxId |-> 1],
                                   CartaoDaCorrida, VencimentoDaCorrida)
        st == Inserir(r.st, [Conta("D", "compra", 5, VencimentoDaCorrida)
                               EXCEPT !.cartao = CartaoDaCorrida, !.fatura = r.id])
    IN  [contas |-> atualizar_valor_fatura(st.contas, r.id), proxId |-> st.proxId]

InitCorrida ==
    /\ \E existente \in BOOLEAN :
          /\ contas = IF existente THEN LivroComFatura.contas ELSE << >>
          /\ proxId = IF existente THEN LivroComFatura.proxId ELSE 1
          /\ pedido = [op |-> "corrida", existente |-> existente,
                       proc |-> [p \in Requisicoes |->
                                    [pc |-> "buscar", fatura |-> 0, total |-> 0]]]
    /\ totalGrupo = << >>
    /\ tabelas = TabelasIniciais

\* obter_ou_criar_fatura: Conta.objects.filter(...).first()
BuscarFatura(p) ==
    /\ pedido.proc[p].pc = "buscar"
    /\ LET achadas == FaturasDoMes(contas, CartaoDaCorrida, VencimentoDaCorrida)
       IN  pedido' = [pedido EXCEPT !.proc[p] =
                         IF achadas # {}
                         THEN [@ EXCEPT !.pc = "despesa",
                                        !.fatura = Primeira(contas, achadas)]
                         ELSE [@ EXCEPT !.pc = "criar fatura"]]
    /\ UNCHANGED <<contas, proxId, totalGrupo, tabelas>>

\* obter_ou_criar_fatura: Conta.objects.create(..., eh_fatura_cartao=True)
CriarFatura(p) ==
    /\ pedido.proc[p].pc = "criar fatura"
    /\ LET st == Inserir(Estado, [Conta("D", "Fatura", 0, VencimentoDaCorrida)
                                    EXCEPT !.cartao = CartaoDaCorrida,
                                           !.eh_fatura_cartao = TRUE])
       IN  /\ contas' = st.contas
           /\ proxId' = st.proxId
           /\ pedido' = [pedido EXCEPT !.proc[p].pc = "despesa",
                                       !.proc[p].fatura = proxId]
    /\ UNCHANGED <<totalGrupo, tabelas>>

\* Conta.objects.create(..., fatura=fatura)
CriarDespesa(p) ==
    /\ pedido.proc[p].pc = "despesa"
    /\ LET st == Inserir(Estado, [Conta("D", "compra", ValorDaCorrida(p),
                                        VencimentoDaCorrida)
                                    EXCEPT !.cartao = CartaoDaCorrida,
                                           !.fatura = pedido.proc[p].fatura])
       IN  /\ contas' = st.contas
           /\ proxId' = st.proxId
    /\ pedido' = [pedido EXCEPT !.proc[p].pc = "somar"]
    /\ UNCHANGED <<totalGrupo, tabelas>>

\* atualizar_valor_fatura: Conta.objects.filter(fatura=fatura, ...).aggregate(Sum)
SomarDespesas(p) ==
    /\ pedido.proc[p].pc = "somar"
    /\ pedido' = [pedido EXCEPT
                     !.proc[p].pc = "gravar",
                     !.proc[p].total =
                         SomaValores(contas,
                                     DespesasDaFatura(contas, pedido.proc[p].fatura))]
    /\ UNCHANGED <<contas, proxId, totalGrupo, tabelas>>

\* atualizar_valor_fatura: fatura.valor = total; fatura.save(update_fields=...)
GravarTotal(p) ==
    /\ pedido.proc[p].pc = "gravar"
    /\ contas' = [contas EXCEPT ![pedido.proc[p].fatura].valor = pedido.proc[p].total]
    /\ pedido' = [pedido EXCEPT !.proc[p].pc = "fim"]
    /\ UNCHANGED <<proxId, totalGrupo, tabelas>>

NextCorrida ==
    \E p \in Requisicoes :
        \/ BuscarFatura(p)
        \/ CriarFatura(p)
        \/ CriarDespesa(p)
        \/ SomarDespesas(p)
        \/ GravarTotal(p)

SpecCorrida == InitCorrida /\ [][NextCorrida]_vars

\* both requests have completed
CorridaTerminada ==
    pedido.op = "corrida" /\ \A p \in Requisicoes : pedido.proc[p].pc = "fim"

\* C26: when no invoice of the month existed before, after both purchase
\* requests have completed there is at most one invoice row of the card and
\* month, and both purchases are linked to it.
C26_UmaFaturaAposComprasConcorrentes ==
    (CorridaTerminada /\ ~pedido.existente) =>
        LET faturas == FaturasDoMes(contas, CartaoDaCorrida, VencimentoDaCorrida)
        IN  /\ Cardinality(faturas) <= 1
            /\ \A d \in Ids(contas) \ faturas : {contas[d].fatura} = faturas

\* C27: once the concurrent requests on the expenses of an unpaid invoice have
\* completed, the invoice's amount is the sum of the amounts of its children.
C27_TotalAposRequisicoesConcorrentes ==
    CorridaTerminada =>
        \A f \in Faturas(contas) :
            ~contas[f].transacao_realizada =>
                contas[f].valor = SomaValores(contas, DespesasDaFatura(contas, f))

------------------------------------------------------------------------------
\* C28: in every reachable state, every card expense linked to an invoice has
\* the invoice's card and a due date in the year and month of the invoice's
\* due date, after the purchase and after every later edit of the due date.
C28_DespesaNoMesDaFatura ==
    \A d \in Ids(contas) :
        (EhDespesaDeCartao(d) /\ contas[d].fatura \in Ids(contas)) =>
            LET f == contas[d].fatura
            IN  /\ contas[d].cartao = contas[f].cartao
                /\ contas[d].data_prevista.ano = contas[f].data_prevista.ano
                /\ contas[d].data_prevista.mes = contas[f].data_prevista.mes

------------------------------------------------------------------------------
(* SpecExtrato: the staging screen of a bank-statement extract              *)
(* (ConciliacaoStagingView.post), one request after the other.  The view    *)
(* opens no transaction: every create and save commits on its own           *)

\* Conta.descricao is CharField(max_length=255), LinhaExtrato.descricao is
\* CharField(max_length=500) and the parsers cut a description at 500
ContaDescricaoMax == 255

LinhaDescricaoMax == 500

\* linha.data + timedelta(days=n)
RECURSIVE timedelta_days(_)
timedelta_days(r) ==
    IF r.n = 0 THEN r.d
    ELSE timedelta_days(
           [n |-> r.n - 1,
            d |-> IF r.d.dia < UltimoDiaMes(r.d.ano, r.d.mes)
                  THEN [r.d EXCEPT !.dia = @ + 1]
                  ELSE IF r.d.mes < 12
                       THEN Data(r.d.ano, r.d.mes + 1, 1)
                       ELSE Data(r.d.ano + 1, 1, 1)])

DiasAteOVencimento == 30

LinhaExtrato(extrato, data, descricao, comprimento, valor, tipo) ==
    [extrato |-> extrato, data |-> data, descricao |-> descricao,
     comprimento |-> comprimento, valor |-> valor, tipo |-> tipo,
     status |-> "pendente", conta_vinculada |-> 0]

\* LinhaExtrato.objects.get(pk=linha_id, extrato=extrato, status="pendente")
LinhaPendente(ls, linha_id, extrato) ==
    /\ linha_id \in DOMAIN ls
    /\ ls[linha_id].extrato = extrato
    /\ ls[linha_id].status = "pendente"

\* the row the view creates for a statement line
ContaDaLinha(linha, cartao) ==
    LET tipo_conta == IF linha.tipo = "C" THEN "R" ELSE "D"
        de_cartao == cartao # 0 /\ tipo_conta = "D"
    IN  [Conta(tipo_conta, linha.descricao, linha.valor,
               IF de_cartao
               THEN timedelta_days([d |-> linha.data, n |-> DiasAteOVencimento])
               ELSE linha.data)
           EXCEPT !.transacao_realizada = ~de_cartao,
                  !.data_realizacao = IF de_cartao THEN SemData ELSE linha.data,
                  !.cartao = cartao]

\* the loop over linha_ids of acao == "importar"; r holds the ledger, the
\* lines, the ids still to visit, count, and whether a statement raised
RECURSIVE ImportarLinhasDoExtrato(_)
ImportarLinhasDoExtrato(r) ==
    IF r.ids = << >> \/ r.falhou THEN r
    ELSE LET linha_id == Head(r.ids)
             resto == Tail(r.ids)
         IN  IF ~LinhaPendente(r.linhas, linha_id, r.extrato)
             THEN ImportarLinhasDoExtrato([r EXCEPT !.ids = resto])
             ELSE IF r.linhas[linha_id].comprimento > ContaDescricaoMax
                  THEN [r EXCEPT !.falhou = TRUE]
                  ELSE LET st == Inserir(r.st, ContaDaLinha(r.linhas[linha_id],
                                                            r.cartao))
                       IN  ImportarLinhasDoExtrato(
                             [r EXCEPT !.ids = resto,
                                       !.st = st,
                                       !.linhas[linha_id].status = "importado",
                                       !.linhas[linha_id].conta_vinculada =
                                           r.st.proxId,
                                       !.count = @ + 1])

ConciliacaoStaging(pk, acao, linha_ids) ==
    /\ pk \in DOMAIN tabelas.ExtratoImportado.linhas
    /\ LET extrato == tabelas.ExtratoImportado.linhas[pk]
           ls == tabelas.LinhaExtrato.linhas
       IN  IF acao = "importar" /\ linha_ids # << >>
           THEN LET r == ImportarLinhasDoExtrato(
                           [st |-> Estado, linhas |-> ls, ids |-> linha_ids,
                            extrato |-> pk, cartao |-> extrato.cartao,
                            count |-> 0, falhou |-> FALSE])
                IN  /\ contas' = r.st.contas
                    /\ proxId' = r.st.proxId
                    /\ tabelas' =
                         [tabelas EXCEPT
                            !.LinhaExtrato.linhas = r.linhas,
                            !.ExtratoImportado.linhas[pk].linhas_importadas =
                                IF r.falhou THEN @ ELSE @ + r.count]
           ELSE IF acao = "ignorar" /\ linha_ids # << >>
           THEN /\ tabelas' =
                     [tabelas EXCEPT !.LinhaExtrato.linhas =
                        [i \in DOMAIN ls |->
                           IF /\ \E k \in DOMAIN linha_ids : linha_ids[k] = i
                              /\ LinhaPendente(ls, i, pk)
                           THEN [ls[i] EXCEPT !.status = "ignorado"]
                           ELSE ls[i]]]
                /\ UNCHANGED <<contas, proxId>>
           ELSE UNCHANGED <<contas, proxId, tabelas>>

\* the extract under test, its lines, and the ids a request may name: the
\* three lines, and an id that is no line of the extract
MaxLinhasExtrato == 3

MaxIdsPorPedido == 2

LinhasDoExtrato ==
    [i \in 1..MaxLinhasExtrato |->
        LinhaExtrato(1, Data(2024, 1, 10 + i), "linha",
                     IF i = MaxLinhasExtrato THEN LinhaDescricaoMax ELSE 5,
                     10 * i, IF i = 1 THEN "C" ELSE "D")]

IdsNomeados == (1..MaxLinhasExtrato) \cup {MaxLinhasExtrato + 1}

ListasDeIds ==
    UNION { [1..n -> IdsNomeados] : n \in 0..MaxIdsPorPedido }

InitExtrato ==
    /\ contas = << >>
    /\ proxId = 1
    /\ totalGrupo = << >>
    /\ pedido = [op |-> "nenhum"]
    /\ \E cartao \in {0} \cup Cartoes, curta \in BOOLEAN :
          tabelas = [TabelasIniciais EXCEPT
                       !.ExtratoImportado =
                           [linhas |-> (1 :> [cartao |-> cartao,
                                              status |-> "processado",
                                              linhas_encontradas |-> MaxLinhasExtrato,
                                              linhas_importadas |-> 0]),
                            proxId |-> 2],
                       !.LinhaExtrato =
                           [linhas |-> [LinhasDoExtrato EXCEPT
                                          ![MaxLinhasExtrato].comprimento =
                                              IF curta THEN 5 ELSE @],
                            proxId |-> MaxLinhasExtrato + 1]]

ImportarDoExtrato ==
    /\ \E ids \in ListasDeIds : ConciliacaoStaging(1, "importar", ids)
    /\ UNCHANGED <<totalGrupo, pedido>>

IgnorarDoExtrato ==
    /\ \E ids \in ListasDeIds : ConciliacaoStaging(1, "ignorar", ids)
    /\ UNCHANGED <<totalGrupo, pedido>>

NextExtrato ==
    \/ ImportarDoExtrato
    \/ IgnorarDoExtrato

SpecExtrato == InitExtrato /\ [][NextExtrato]_vars

LinhasComStatus(t, status) ==
    { i \in DOMAIN t.LinhaExtrato.linhas : t.LinhaExtrato.linhas[i].status = status }

\* C29: over every sequence of staging requests a line's status only moves
\* from pendente to importado or to ignorado and never changes afterwards, a
\* line produces at most one ledger entry, a request naming a line that is not
\* pendente creates nothing, and the extract's linhas_importadas always equals
\* the number of its lines with status importado.
C29_StatusDasLinhasEContador ==
    [][/\ \A i \in DOMAIN tabelas.LinhaExtrato.linhas :
             LET antes == tabelas.LinhaExtrato.linhas[i].status
                 depois == tabelas'.LinhaExtrato.linhas[i].status
             IN  antes # depois =>
                    antes = "pendente" /\ depois \in {"importado", "ignorado"}
       /\ Cardinality(Ids(contas') \ Ids(contas)) =
             Cardinality(LinhasComStatus(tabelas', "importado")
                           \ LinhasComStatus(tabelas, "importado"))
       /\ \A pk \in DOMAIN tabelas'.ExtratoImportado.linhas :
             tabelas'.ExtratoImportado.linhas[pk].linhas_importadas =
                 Cardinality(LinhasComStatus(tabelas', "importado"))]_vars

------------------------------------------------------------------------------
(* SpecDonos: two users, each with rows of Categoria and Conta, and the two *)
(* ways a file comes back into the database: the upsert of a backup         *)
(* workbook (importar_backup_freecash_upsert under its router) and the      *)
(* restore of a .fcbk file (restore_user_data_fcbk under importar_universal)*)

Usuarios == {1, 2}

\* a row of Conta and a row of Categoria with their owner
ContaDe(usuario, linha) == linha @@ [usuario |-> usuario]

CategoriaDe(usuario, uuid, nome) == [uuid |-> uuid, nome |-> nome, usuario |-> usuario]

\* the uuids a file may hold: those of the first rows of the two users and
\* one that no row holds
UuidsNoArquivo == {1, 2, 3}

\* uuid.uuid4(): a value that no row and no file holds
uuid4(pid) == Cardinality(UuidsNoArquivo) + pid

\* the two tables as the statements of one call see them
BancoDosDonos == [contas |-> contas, proxId |-> proxId, categorias |-> tabelas.Categoria]

\* unique_together = ("usuario", "nome") would be broken by writing the name
\* for the owner in a row other than id
NomeRepetido(tab, id, usuario, nome) ==
    \E i \in DOMAIN tab.linhas \ {id} :
        tab.linhas[i].usuario = usuario /\ tab.linhas[i].nome = nome

\* 1) Categorias: Categoria.objects.update_or_create(uuid=uid,
\*    defaults=dict(usuario=usuario, **defaults)); v holds bd, the importing
\*    user, the rows of the sheet, the position and whether a statement raised
RECURSIVE UpsertCategorias(_)
UpsertCategorias(v) ==
    IF v.k > Len(v.rows) \/ v.falhou THEN v
    ELSE LET row == v.rows[v.k]
             tab == v.bd.categorias
             achadas == { i \in DOMAIN tab.linhas : tab.linhas[i].uuid = row.uuid }
             created == achadas = {}
             id == IF created THEN tab.proxId ELSE CHOOSE i \in achadas : TRUE
             nova == CategoriaDe(v.usuario, row.uuid, row.nome)
         IN  IF row.uuid = 0
             THEN UpsertCategorias([v EXCEPT !.k = @ + 1])
             ELSE IF NomeRepetido(tab, id, v.usuario, row.nome)
             THEN [v EXCEPT !.falhou = TRUE]
             ELSE UpsertCategorias(
                    [v EXCEPT !.k = @ + 1,
                              !.bd.categorias =
                                  [linhas |-> IF created
                                              THEN tab.linhas @@ (id :> nova)
                                              ELSE [tab.linhas EXCEPT ![id] = nova],
                                   proxId |-> IF created THEN tab.proxId + 1
                                              ELSE tab.proxId]])

\* cat_map = {str(c.uuid): c.id for c in Categoria.objects.filter(usuario=usuario)}
\* and cat_map.get(cat_uuid_str)
cat_map_get(tab, usuario, categoria_uuid) ==
    LET achadas == { i \in DOMAIN tab.linhas :
                       /\ tab.linhas[i].usuario = usuario
                       /\ tab.linhas[i].uuid = categoria_uuid }
    IN  IF achadas = {} THEN 0 ELSE CHOOSE i \in achadas : TRUE

\* 3) Contas: Conta.objects.update_or_create(uuid=uid,
\*    defaults=dict(usuario=usuario, **defaults))
RECURSIVE UpsertContas(_)
UpsertContas(v) ==
    IF v.k > Len(v.rows) \/ v.falhou THEN v
    ELSE LET row == v.rows[v.k]
             st == [contas |-> v.bd.contas, proxId |-> v.bd.proxId]
             achadas == { i \in Ids(st.contas) : st.contas[i].uuid = row.uuid }
         IN  IF row.uuid = 0 \/ row.data_prevista = SemData
             THEN UpsertContas([v EXCEPT !.k = @ + 1])
             ELSE IF BackupLevantaExcecao(st, row)
             THEN [v EXCEPT !.falhou = TRUE]
             ELSE LET id == CHOOSE i \in achadas : TRUE
                  IN  UpsertContas(
                        [v EXCEPT !.k = @ + 1,
                                  !.bd.contas =
                                      [importar_backup_conta(st, row).contas
                                         EXCEPT ![id].usuario = v.usuario,
                                                ![id].categoria =
                                                    cat_map_get(v.bd.categorias,
                                                                v.usuario,
                                                                row.categoria_uuid)]])

\* importar_backup_freecash_upsert(arquivo_io, usuario) with the sheets
\* "categorias" and "contas" of the workbook
importar_backup_freecash_upsert_de(bd, usuario, arquivo) ==
    LET c == UpsertCategorias([bd |-> bd, usuario |-> usuario,
                               rows |-> arquivo.categorias, k |-> 1,
                               falhou |-> FALSE])
    IN  IF c.falhou THEN c
        ELSE UpsertContas([c EXCEPT !.rows = arquivo.contas, !.k = 1])

\* 1. DELETE EXISTING: model.objects.filter(usuario=user).delete() for Conta
\* and then Categoria; Conta.categoria is on_delete=SET_NULL
ApagarDoUsuario(bd, usuario) ==
    LET ficam == { i \in Ids(bd.contas) : bd.contas[i].usuario # usuario }
        cats == { i \in DOMAIN bd.categorias.linhas :
                    bd.categorias.linhas[i].usuario # usuario }
    IN  [bd EXCEPT
           !.contas = [i \in ficam |->
                          IF bd.contas[i].categoria \in cats \cup {0}
                          THEN bd.contas[i]
                          ELSE [bd.contas[i] EXCEPT !.categoria = 0]],
           !.categorias.linhas = [i \in cats |-> bd.categorias.linhas[i]]]

\* 2. IMPORT NEW, model Categoria: update_or_create(uuid=uid, usuario=user,
\* defaults=row); when it raises, the fallback by name, or a new uuid
RECURSIVE RestaurarCategorias(_)
RestaurarCategorias(v) ==
    IF v.k > Len(v.rows) THEN v
    ELSE LET row == v.rows[v.k]
             tab == v.bd.categorias
             do_usuario == { i \in DOMAIN tab.linhas :
                               /\ tab.linhas[i].uuid = row.uuid
                               /\ tab.linhas[i].usuario = v.usuario }
             uuid_tomado == \E i \in DOMAIN tab.linhas : tab.linhas[i].uuid = row.uuid
             de_mesmo_nome == { i \in DOMAIN tab.linhas :
                                  /\ tab.linhas[i].usuario = v.usuario
                                  /\ tab.linhas[i].nome = row.nome }
             atualiza == do_usuario # {} \/ de_mesmo_nome # {}
             id == IF do_usuario # {} THEN CHOOSE i \in do_usuario : TRUE
                   ELSE IF de_mesmo_nome # {} THEN CHOOSE i \in de_mesmo_nome : TRUE
                   ELSE tab.proxId
             linha == IF atualiza
                      THEN [tab.linhas[id] EXCEPT !.nome = row.nome]
                      ELSE CategoriaDe(v.usuario,
                                       IF uuid_tomado THEN uuid4(tab.proxId)
                                       ELSE row.uuid,
                                       row.nome)
         IN  IF row.uuid = 0
             THEN RestaurarCategorias([v EXCEPT !.k = @ + 1])
             ELSE RestaurarCategorias(
                    [v EXCEPT !.k = @ + 1,
                              !.uuid_to_id = (row.uuid :> id) @@ @,
                              !.bd.categorias =
                                  [linhas |-> IF atualiza
                                              THEN [tab.linhas EXCEPT ![id] = linha]
                                              ELSE tab.linhas @@ (id :> linha),
                                   proxId |-> IF atualiza THEN tab.proxId
                                              ELSE tab.proxId + 1]])

\* 2. IMPORT NEW, model Conta: the rows of the user were deleted, so the
\* lookup by (uuid, usuario) finds none; the create raises IntegrityError when
\* the uuid is held by a row of another user and the fallback creates the row
\* with a new uuid
RECURSIVE RestaurarContas(_)
RestaurarContas(v) ==
    IF v.k > Len(v.rows) THEN v
    ELSE LET row == v.rows[v.k]
             do_usuario == { i \in Ids(v.bd.contas) :
                               /\ v.bd.contas[i].uuid = row.uuid
                               /\ v.bd.contas[i].usuario = v.usuario }
             uuid_tomado == \E i \in Ids(v.bd.contas) : v.bd.contas[i].uuid = row.uuid
             id == IF do_usuario # {} THEN CHOOSE i \in do_usuario : TRUE
                   ELSE v.bd.proxId
             linha ==
                 ContaDe(v.usuario,
                         [Conta(row.tipo, row.descricao, row.valor, row.data_prevista)
                            EXCEPT !.uuid = IF do_usuario = {} /\ uuid_tomado
                                            THEN uuid4(v.bd.proxId) ELSE row.uuid,
                                   !.transacao_realizada = row.transacao_realizada,
                                   !.data_realizacao = row.data_realizacao,
                                   !.categoria =
                                       IF row.categoria_uuid \in DOMAIN v.uuid_to_id
                                       THEN v.uuid_to_id[row.categoria_uuid]
                                       ELSE 0])
         IN  IF row.uuid = 0
             THEN RestaurarContas([v EXCEPT !.k = @ + 1])
             ELSE RestaurarContas(
                    [v EXCEPT !.k = @ + 1,
                              !.bd.contas = IF do_usuario # {}
                                            THEN [@ EXCEPT ![id] = linha]
                                            ELSE @ @@ (id :> linha),
                              !.bd.proxId = IF do_usuario # {} THEN @ ELSE @ + 1])

\* restore_user_data_fcbk(data_dict, user) on the tables of the two users
restore_user_data_fcbk_de(bd, usuario, arquivo) ==
    LET c == RestaurarCategorias([bd |-> ApagarDoUsuario(bd, usuario),
                                  usuario |-> usuario, uuid_to_id |-> << >>,
                                  rows |-> arquivo.categorias, k |-> 1,
                                  falhou |-> FALSE])
    IN  RestaurarContas([c EXCEPT !.rows = arquivo.contas, !.k = 1])

\* the files sent: a category, a ledger row, or a category and a ledger row
\* that refers to it, with the uuid of a row of either user or a new one, and
\* new values in the other columns
NomesNoArquivo == {"casa", "lazer"}

LinhaDeContaNoArquivo(uuid, categoria_uuid) ==
    [uuid |-> uuid, tipo |-> "D", descricao |-> "arquivo", valor |-> 7,
     data_prevista |-> Data(2024, 3, 1), transacao_realizada |-> FALSE,
     data_realizacao |-> SemData, categoria_uuid |-> categoria_uuid]

ArquivosDosDonos ==
    { [categorias |-> <<[uuid |-> u, nome |-> n]>>, contas |-> << >>] :
        u \in UuidsNoArquivo, n \in NomesNoArquivo }
    \cup
    { [categorias |-> << >>, contas |-> <<LinhaDeContaNoArquivo(u, c)>>] :
        u \in UuidsNoArquivo, c \in {0} \cup Usuarios }
    \cup
    { [categorias |-> <<[uuid |-> c, nome |-> "casa"]>>,
       contas |-> <<LinhaDeContaNoArquivo(u, c)>>] :
        u \in UuidsNoArquivo, c \in UuidsNoArquivo }

\* the requests of one run
MaxImportacoes == 2

InitDonos ==
    /\ contas = [u \in Usuarios |->
                    ContaDe(u, [Conta("D", "compra", 5, Data(2024, 1, 5))
                                  EXCEPT !.uuid = u, !.categoria = u])]
    /\ proxId = Cardinality(Usuarios) + 1
    /\ totalGrupo = << >>
    /\ pedido = [op |-> "nenhum", usuario |-> 0, n |-> 0]
    /\ tabelas = [TabelasIniciais EXCEPT
                    !.Categoria =
                        [linhas |-> [u \in Usuarios |->
                                        CategoriaDe(u, u, IF u = 1 THEN "casa"
                                                          ELSE "lazer")],
                         proxId |-> Cardinality(Usuarios) + 1],
                    !.CartaoCredito = [linhas |-> << >>, proxId |-> 1]]

GravarDosDonos(bd, usuario, op) ==
    /\ contas' = bd.contas
    /\ proxId' = bd.proxId
    /\ tabelas' = [tabelas EXCEPT !.Categoria = bd.categorias]
    /\ pedido' = [op |-> op, usuario |-> usuario, n |-> pedido.n + 1]
    /\ UNCHANGED totalGrupo

\* importar_planilha_unificada with a backup workbook: one transaction, rolled
\* back when the import raises
ImportarBackupUpsert ==
    /\ pedido.n < MaxImportacoes
    /\ \E usuario \in Usuarios, arquivo \in ArquivosDosDonos :
          LET r == importar_backup_freecash_upsert_de(BancoDosDonos, usuario, arquivo)
          IN  GravarDosDonos(IF r.falhou THEN BancoDosDonos ELSE r.bd,
                             usuario, "upsert")

\* importar_universal with a .fcbk file
RestaurarFcbk ==
    /\ pedido.n < MaxImportacoes
    /\ \E usuario \in Usuarios, arquivo \in ArquivosDosDonos :
          LET r == restore_user_data_fcbk_de(BancoDosDonos, usuario, arquivo)
          IN  GravarDosDonos(r.bd, usuario, "restore")

NextDonos ==
    \/ ImportarBackupUpsert
    \/ RestaurarFcbk

SpecDonos == InitDonos /\ [][NextDonos]_vars

\* the rows of a table that belong to other users than u
DeOutros(linhas, u) == { i \in DOMAIN linhas : linhas[i].usuario # u }

\* a call by user u left the rows of the other users as they were and gave
\* them no new row
NaoTocaOsOutros(antes, depois, u) ==
    /\ \A i \in DeOutros(antes, u) : i \in DOMAIN depois /\ depois[i] = antes[i]
    /\ DeOutros(depois, u) \subseteq DeOutros(antes, u)

\* C30: an import or a restore performed by one user never creates, modifies,
\* reassigns or deletes a row owned by another user, even when the file holds
\* the uuid of a row of that other user.
C30_ImportacaoNaoTocaOutroUsuario ==
    [][/\ NaoTocaOsOutros(contas, contas', pedido'.usuario)
       /\ NaoTocaOsOutros(tabelas.Categoria.linhas, tabelas'.Categoria.linhas,
                          pedido'.usuario)]_vars

====
